---- MODULE Spec2Model ----
(***************************************************************************)
(* A model of the AI study-card generation pipeline of zistudy-api.        *)
(*                                                                         *)
(*   Spec          StudyCardGenerationAgent.generate: the bounded          *)
(*                 retry/feedback loop around GenerativeClient.generate_json*)
(*   FairSpec      the same loop with weak fairness of its steps           *)
(*   SpecSchema    _resolve_schema: inlining of $ref / $defs               *)
(*   SpecResponse  GeminiGenerativeClient.generate_json: response handling *)
(*   SpecPdf       NativePDFContextStrategy.build_context                  *)
(*   SpecCards     typed card data: construction, storage, parse_card_data *)
(*   SpecPersist   AiStudyCardService._persist_generated_cards             *)
(*   SpecJobs      the clone, export and AI-generation job processors      *)
(*   SpecAuth      overlapping AuthService.refresh calls with one token    *)
(*   SpecGenerate  the steps of AiStudyCardService.generate_from_pdfs      *)
(*   SpecUpload    the two requests of GeminiGenerativeClient.upload_file  *)
(*   SpecMap       AiStudyCardService._map_card_to_data on one card        *)
(*   SpecIngest    DocumentIngestionService._extract, its text segments    *)
(*   SpecLogin     authenticate and refresh of a user who gets disabled    *)
(*                                                                         *)
(* Python's None is the empty sequence <<>> and a present optional value v *)
(* is <<v>>.  Temperatures are counted in hundredths (0.35 is 35).         *)
(***************************************************************************)
EXTENDS Integers, Sequences, FiniteSets, TLC

VARIABLES
    \* ---- StudyCardGenerationAgent.generate ----
    request,            \* StudyCardGenerationRequest (the fields generate reads)
    config,             \* AgentConfiguration
    pc,                 \* position of the coroutine
    attempt,            \* loop variable of `for attempt in range(1, max_attempts + 1)`
    target_card_count,  \* local of generate
    temperature,        \* local of generate
    model,              \* local of generate
    generated_cards,    \* local of generate
    retention_aid,      \* local of generate
    feedback,           \* local of generate
    last_error,         \* local of generate
    context_summaries,  \* local of generate: the lines of the dedup context
    calls,              \* the client's record of generate_json calls, in order
    responses,          \* what the client answered to each call, in order
    inflight,           \* number of generate_json calls awaiting their answer
    outcome,            \* the AgentResult returned or the exception raised
    \* ---- _resolve_schema ----
    schema,             \* the response schema handed to the client
    resolved,           \* the result of _resolve_schema, <<>> before it ran
    \* ---- GeminiGenerativeClient.generate_json, response handling ----
    http_response,      \* the HTTP response of the generateContent call
    json_result,        \* what generate_json returned or raised, <<>> before it ran
    \* ---- NativePDFContextStrategy.build_context ----
    files,              \* the UploadedPDF sequence handed to build_context
    pdf_pc,             \* position of the coroutine
    documents,          \* local of build_context
    extras,             \* local of build_context
    uploads,            \* the client's record of upload_file calls, in order
    pdf_context,        \* the PDFContext returned, <<>> before the return
    \* ---- typed card data: construction, storage, parse_card_data ----
    card_input,         \* the class and keyword arguments of a construction
    card_instance,      \* the instance built or the validation failure
    card_parsed,        \* parse_card_data of the stored instance
    existing_card_ids,  \* request.existing_card_ids, <<>> before the call
    existing_questions, \* what _load_existing_questions returned, <<>> before
    get_many_calls,     \* number of StudyCardRepository.get_many calls
    \* ---- AiStudyCardService._persist_generated_cards ----
    agent_result,       \* the AgentResult (cards, retention_aid) of the agent
    persist_request,    \* the request fields _persist_generated_cards reads
    persisted,          \* the batch handed to card storage, or the exception raised
    \* ---- job processors ----
    job_type,           \* "clone", "export" or "ai_generation"
    api_key_configured, \* settings.gemini_api_key is set
    job_row,            \* the committed AsyncJob row, <<>> when there is none
    job_session,        \* the row as the processor's session sees it
    job_pc,             \* position of the coroutine
    job_exc,            \* the exception caught by `except Exception`
    job_raised,         \* the exception that left the processor
    client_open,        \* the GeminiGenerativeClient exists and is not closed
    \* ---- refresh-token rotation ----
    user_exists,        \* the user of the token is still in the users table
    rt_row,             \* the committed refresh_tokens row of the presented token
    rt_lock,            \* the session holding an uncommitted UPDATE of the row, or 0
    auth_pc,            \* position of each refresh call
    auth_outcome,       \* what each call returned: <<>>, "tokens" or "401"
    issued,             \* the calls whose new token pair is committed
    \* ---- AiStudyCardService.generate_from_pdfs ----
    gen_request,        \* the request fields generate_from_pdfs reads
    gen_pc,             \* position of the coroutine
    gen_result,         \* agent_result, <<>> before the agent returned
    card_payloads,      \* local of _persist_generated_cards
    import_calls,       \* the batches import_card_batch was called with, in order
    stored,             \* the cards the card storage has committed
    gen_raised,         \* the exception that left generate_from_pdfs
    \* ---- GeminiGenerativeClient.upload_file ----
    up_pc,              \* position of the coroutine
    up_display_name,    \* argument display_name
    up_requests,        \* the requests posted to the file API, in order
    up_responses,       \* the responses of the file API, in order
    up_upload_url,      \* local upload_url, <<>> before the start response
    up_result,          \* the URI returned or the GeminiClientError raised
    \* ---- AiStudyCardService._map_card_to_data ----
    map_card,           \* the generated card handed to _map_card_to_data
    map_result,         \* the CardData returned or the ValueError raised
    \* ---- DocumentIngestionService._extract ----
    ing_config,         \* _text_chunk_size and _max_text_length
    ing_pages,          \* page.get_text("text") of each page, in order
    text_segments,      \* local text_segments once every page is chunked
    ing_result,         \* text_segments of the PDFIngestionResult
    \* ---- AuthService.authenticate and refresh for one user ----
    is_active,          \* users.is_active of the user
    refresh_tokens,     \* the user's rows of the refresh_tokens table, in order
    login_outcome       \* what the last call returned: "tokens", "401" or "403"

agentVars == <<request, config, pc, attempt, target_card_count, temperature, model,
               generated_cards, retention_aid, feedback, last_error,
               context_summaries, calls, responses, inflight, outcome>>
schemaVars == <<schema, resolved>>
responseVars == <<http_response, json_result>>
pdfVars == <<files, pdf_pc, documents, extras, uploads, pdf_context>>
cardVars == <<card_input, card_instance, card_parsed, existing_card_ids,
              existing_questions, get_many_calls>>
persistVars == <<agent_result, persist_request, persisted>>
jobVars == <<job_type, api_key_configured, job_row, job_session, job_pc, job_exc,
             job_raised, client_open>>
authVars == <<user_exists, rt_row, rt_lock, auth_pc, auth_outcome, issued>>
genVars == <<gen_request, gen_pc, gen_result, card_payloads, import_calls, stored,
             gen_raised>>
uploadVars == <<up_pc, up_display_name, up_requests, up_responses, up_upload_url,
                up_result>>
mapVars == <<map_card, map_result>>
ingestVars == <<ing_config, ing_pages, text_segments, ing_result>>
loginVars == <<is_active, refresh_tokens, login_outcome>>
restVars == <<pdfVars, cardVars, persistVars, jobVars, authVars, genVars, uploadVars,
              mapVars, ingestVars, loginVars>>
nonAgentVars == <<schemaVars, responseVars, restVars>>
vars == <<agentVars, schemaVars, responseVars, restVars>>

None == <<>>
Some(v) == <<v>>

\* A string that the code strips is the sequence of its characters.
Whitespace == {" ", "\t", "\n"}

\* str.lstrip() / str.rstrip() / str.strip()
LStrip(str) ==
    IF \A i \in DOMAIN str : str[i] \in Whitespace THEN <<>>
    ELSE SubSeq(str,
                CHOOSE i \in DOMAIN str :
                    str[i] \notin Whitespace /\ \A j \in 1..(i - 1) : str[j] \in Whitespace,
                Len(str))

RStrip(str) ==
    IF \A i \in DOMAIN str : str[i] \in Whitespace THEN <<>>
    ELSE SubSeq(str, 1,
                CHOOSE i \in DOMAIN str :
                    str[i] \notin Whitespace
                    /\ \A j \in (i + 1)..Len(str) : str[j] \in Whitespace)

Strip(str) == RStrip(LStrip(str))

------------------------------------------------------------------------------
(* Bounds of the model                                                      *)

MaxBatch == 2       \* most cards in one client response
MaxAttempts == 3    \* largest config.max_attempts explored
MaxTarget == 3      \* largest request.target_card_count explored

(* Program constants                                                        *)

DefaultTemperature == 35    \* ai_generation_default_temperature = 0.35

------------------------------------------------------------------------------
(* StudyCardGenerationAgent.generate                                        *)

\* The card types the modelled client answers with (the loop accepts every
\* card whatever its type, lines 174-175).
CardTypes == {"mcq_single", "note"}

\* The requests: target_card_count is None or >= 1 (ge=1), temperature is None
\* or within 0.0 .. 2.0 (ge=0.0, le=2.0), model is None or a string.  Two
\* families: requests that vary what drives the loop, and requests that vary
\* the overrides; and a request that prefers question cards.
Requests ==
    [target_card_count : {None} \cup {Some(n) : n \in 1..(MaxTarget + 1)},
     temperature : {None},
     model : {None},
     include_retention_aid : BOOLEAN,
     preferred_card_types : {<<>>}]
    \cup
    [target_card_count : {Some(1)},
     temperature : {None, Some(0), Some(70)},
     model : {None, Some("models/override")},
     include_retention_aid : {TRUE},
     preferred_card_types : {<<>>}]
    \cup
    [target_card_count : {Some(2)},
     temperature : {None},
     model : {None},
     include_retention_aid : {TRUE},
     preferred_card_types : {<<"mcq_single">>}]

\* The configurations the settings allow: counts >= 1, 1 <= max_attempts.
Configurations ==
    [default_model : {"gemini-2.5-pro"},
     default_temperature : {DefaultTemperature},
     default_card_count : {2},
     max_card_count : {MaxTarget},
     max_attempts : 1..MaxAttempts]

\* `x or y` on an optional number: None and 0 are falsy.
OrElseNumber(opt, default) ==
    IF opt # None /\ opt[1] # 0 THEN opt[1] ELSE default

\* `x or y` on an optional string: None and "" are falsy.
OrElseString(opt, default) ==
    IF opt # None /\ opt[1] # "" THEN opt[1] ELSE default

Min(a, b) == IF a <= b THEN a ELSE b

TargetCardCount(req, cfg) ==
    Min(OrElseNumber(req.target_card_count, cfg.default_card_count), cfg.max_card_count)

Temperature(req, cfg) == OrElseNumber(req.temperature, cfg.default_temperature)

Model(req, cfg) == OrElseString(req.model, cfg.default_model)

\* remaining = target_card_count - len(generated_cards), at the top of an attempt
Remaining(target, cards) == target - Len(cards)

\* A mutant of AttemptsLeft: the range is one too long.
AttemptsLeftOneMore(k, cfg) == k <= cfg.max_attempts + 1

\* `for attempt in range(1, max_attempts + 1)`: the loop body runs for this attempt
AttemptsLeft(k, cfg) == k <= cfg.max_attempts

\* _render_instruction_block: the count asked for and the feedback line, which
\* is present when feedback is not None (a feedback string is never empty).
RenderInstructionBlock(remaining_count, fb) ==
    [count |-> remaining_count, previous_feedback |-> fb]

\* A mutant of ErrorFeedback: the failure leaves no feedback.
ErrorFeedbackDropped(exc) == None

\* The feedback set by the except branch.
ErrorFeedback(exc) ==
    Some([phrase |-> "could not be processed", received |-> 0, required |-> 0,
          error |-> Some(exc)])

\* A mutant of RemainingAfterBatch: the last batch alone is counted.
RemainingFromBatchAlone(target, cards, batch) == target - Len(batch)

\* remaining = target_card_count - len(generated_cards), after the batch was added
RemainingAfterBatch(target, cards, batch) == target - Len(cards)

\* The feedback set after a non-empty batch that leaves cards to produce.
AdditionalFeedback(batch, remaining) ==
    Some([phrase |-> "additional distinct card", received |-> Len(batch),
          required |-> remaining, error |-> None])

\* The feedback set after an empty batch.
EmptyFeedback ==
    Some([phrase |-> "No new distinct cards", received |-> 0, required |-> 0,
          error |-> None])

\* A mutant of RecordError: the first error of the run is kept.
RecordErrorKeepsFirst(previous, exc) == IF previous # None THEN previous ELSE Some(exc)

\* last_error = exc
RecordError(previous, exc) == Some(exc)

\* GeminiClientError("Failed to generate the requested number of distinct study
\* cards."): the error of no attempt.
GenericFailure == [type |-> "GeminiClientError", attempt |-> 0]

\* A mutant of Accept: the batch replaces the accumulated list.
AcceptReplaces(cards, batch) == batch

\* A mutant of Accept: only the question cards of the batch are taken.
IsQuestionCard(card) == card.card_type # "note"
AcceptQuestionsOnly(cards, batch) == cards \o SelectSeq(batch, IsQuestionCard)

\* generated_cards.extend(batch_new_cards)
Accept(cards, batch) == cards \o batch

\* A mutant of EnforceCount: the excess is kept.
EnforceCountKeepsAll(cards, target) == cards

\* A mutant of EnforceCount: the excess is cut from the front.
EnforceCountKeepsLast(cards, target) ==
    IF Len(cards) <= target THEN cards
    ELSE SubSeq(cards, Len(cards) - target + 1, Len(cards))

\* _enforce_count
EnforceCount(cards, target) ==
    IF Len(cards) <= target THEN cards ELSE SubSeq(cards, 1, target)

\* The batches a client can answer with: cards numbered in the order the client
\* produced them over the run, each of some card type.
RECURSIVE SumLen(_)
SumLen(rs) ==
    IF rs = <<>> THEN 0
    ELSE (IF rs[1].kind = "valid" THEN Len(rs[1].cards) ELSE 0) + SumLen(Tail(rs))

\* generate(existing_questions=...): the questions the caller supplies, one
\* of them padded with whitespace and one blank.
ExistingQuestions == << <<" ", "V">>, <<" ">> >>

\* payload.question of a card: a note has none; of the client's cards the
\* first asks a new question, the second has a blank question, the third
\* repeats the first and the fourth repeats an existing question, and so on.
QuestionOf(id, card_type) ==
    IF card_type = "note" THEN <<>>
    ELSE IF id % 4 = 1 THEN <<"N", " ">>
    ELSE IF id % 4 = 2 THEN <<" ">>
    ELSE IF id % 4 = 3 THEN <<"N">>
    ELSE <<"V">>

\* card.difficulty, within 1..5.
DifficultyOf(id) == ((id - 1) % 5) + 1

Batches(first_id) ==
    UNION {{[i \in 1..n |-> [id |-> first_id + i - 1,
                             card_type |-> types[i],
                             difficulty |-> DifficultyOf(first_id + i - 1),
                             question |-> QuestionOf(first_id + i - 1, types[i])]]
            : types \in [1..n -> CardTypes]} : n \in 0..MaxBatch}

\* Lines 91-95: "- Existing question: <question.strip()>" for every caller
\* question that is not blank.
RECURSIVE ExistingLines(_)
ExistingLines(questions) ==
    IF questions = <<>> THEN <<>>
    ELSE (IF Strip(questions[1]) # <<>>
          THEN <<[origin |-> "Existing question", card_type |-> "", difficulty |-> 0,
                  question |-> Strip(questions[1])]>>
          ELSE <<>>) \o ExistingLines(Tail(questions))

\* _extract_question: the stripped question, None when it is blank.
ExtractQuestion(card) ==
    IF Strip(card.question) # <<>> THEN Some(Strip(card.question)) ELSE None

\* _format_card_summary: "- <type> | difficulty <n> | <question.strip()>"
FormatCardSummary(card, question) ==
    [origin |-> "card", card_type |-> card.card_type, difficulty |-> card.difficulty,
     question |-> Strip(question)]

\* A mutant of ExtendContext: the lines of the batch replace the context.
RECURSIVE ExtendContextFromBatchAlone(_, _)
ExtendContextFromBatchAlone(context, batch) ==
    IF batch = <<>> THEN <<>>
    ELSE LET card == batch[1] IN
         (IF IsQuestionCard(card) /\ ExtractQuestion(card) # None
          THEN <<FormatCardSummary(card, ExtractQuestion(card)[1])>>
          ELSE <<>>) \o ExtendContextFromBatchAlone(context, Tail(batch))

\* Lines 174-179: the loop over parsed.cards appends a summary line for
\* every question card whose question is not blank.
RECURSIVE ExtendContext(_, _)
ExtendContext(context, batch) ==
    IF batch = <<>> THEN context
    ELSE LET card == batch[1] IN
         ExtendContext(
             IF IsQuestionCard(card) /\ ExtractQuestion(card) # None
             THEN Append(context, FormatCardSummary(card, ExtractQuestion(card)[1]))
             ELSE context,
             Tail(batch))

\* Lines 128-129 and _render_existing_cards_section: the part is sent only
\* when the context holds a line.
ExistingCardsPart(context) == IF context # <<>> THEN Some(context) ELSE None

AgentInit ==
    /\ request \in Requests
    /\ config \in Configurations
    /\ pc = "start"
    /\ attempt = 0
    /\ target_card_count = 0
    /\ temperature = 0
    /\ model = ""
    /\ generated_cards = <<>>
    /\ retention_aid = None
    /\ feedback = None
    /\ last_error = None
    /\ context_summaries = <<>>
    /\ calls = <<>>
    /\ responses = <<>>
    /\ inflight = 0
    /\ outcome = None

AgentIdle ==
    /\ request = None
    /\ config = None
    /\ pc = "idle"
    /\ attempt = 0
    /\ target_card_count = 0
    /\ temperature = 0
    /\ model = ""
    /\ generated_cards = <<>>
    /\ retention_aid = None
    /\ feedback = None
    /\ last_error = None
    /\ context_summaries = <<>>
    /\ calls = <<>>
    /\ responses = <<>>
    /\ inflight = 0
    /\ outcome = None

\* Lines 85-100: the inputs fixed per call and the empty accumulators.
Begin ==
    /\ pc = "start"
    /\ target_card_count' = TargetCardCount(request, config)
    /\ temperature' = Temperature(request, config)
    /\ model' = Model(request, config)
    /\ generated_cards' = <<>>
    /\ retention_aid' = None
    /\ feedback' = None
    /\ last_error' = None
    /\ context_summaries' = ExistingLines(ExistingQuestions)
    /\ attempt' = 1
    /\ pc' = "loop"
    /\ UNCHANGED <<request, config, calls, responses, inflight, outcome>>
    /\ UNCHANGED nonAgentVars

\* Lines 113-155: one more attempt is due; render the instructions and call
\* generate_json with the run's model and temperature.
Dispatch ==
    /\ pc = "loop"
    /\ AttemptsLeft(attempt, config)
    /\ Remaining(target_card_count, generated_cards) > 0
    /\ calls' = Append(calls,
           [instructions |-> RenderInstructionBlock(
                                 Remaining(target_card_count, generated_cards), feedback),
            existing_cards |-> ExistingCardsPart(context_summaries),
            model |-> model,
            temperature |-> temperature])
    /\ inflight' = inflight + 1
    /\ pc' = "awaiting"
    /\ UNCHANGED <<request, config, attempt, target_card_count, temperature, model,
                   generated_cards, retention_aid, feedback, last_error,
                   context_summaries, responses, outcome>>
    /\ UNCHANGED nonAgentVars

\* Lines 157-171: generate_json raised GeminiClientError, or the payload failed
\* AiGeneratedStudyCardSet.model_validate.
ReceiveError ==
    /\ pc = "awaiting"
    /\ \E type \in {"GeminiClientError", "ValidationError"} :
         LET exc == [type |-> type, attempt |-> attempt] IN
         /\ responses' = Append(responses, [kind |-> "error", error |-> exc])
         /\ last_error' = RecordError(last_error, exc)
         /\ feedback' = ErrorFeedback(exc)
    /\ inflight' = inflight - 1
    /\ attempt' = attempt + 1
    /\ pc' = "loop"
    /\ UNCHANGED <<request, config, target_card_count, temperature, model,
                   generated_cards, retention_aid, context_summaries, calls, outcome>>
    /\ UNCHANGED nonAgentVars

\* Lines 156, 173-208: the payload validated; every card of it is accepted.
ReceiveBatch ==
    /\ pc = "awaiting"
    /\ \E batch \in Batches(SumLen(responses) + 1), aid \in BOOLEAN :
         LET parsed_aid == IF aid THEN Some([attempt |-> attempt]) ELSE None
             cards == Accept(generated_cards, batch)
             remaining == RemainingAfterBatch(target_card_count, cards, batch)
         IN
         /\ responses' = Append(responses,
                [kind |-> "valid", cards |-> batch, retention_aid |-> parsed_aid])
         /\ context_summaries' = ExtendContext(context_summaries, batch)
         /\ IF batch # <<>>
            THEN /\ generated_cards' = cards
                 /\ retention_aid' =
                        IF request.include_retention_aid /\ parsed_aid # None
                        THEN parsed_aid ELSE retention_aid
                 /\ IF remaining <= 0
                    THEN /\ pc' = "after_loop"
                         /\ feedback' = feedback
                    ELSE /\ pc' = "loop"
                         /\ feedback' = AdditionalFeedback(batch, remaining)
            ELSE /\ generated_cards' = generated_cards
                 /\ retention_aid' = retention_aid
                 /\ feedback' = EmptyFeedback
                 /\ pc' = "loop"
    /\ inflight' = inflight - 1
    /\ attempt' = attempt + 1
    /\ UNCHANGED <<request, config, target_card_count, temperature, model,
                   last_error, calls, outcome>>
    /\ UNCHANGED nonAgentVars

\* Lines 113-116: the loop ends, by exhaustion of the range or by the break.
LeaveLoop ==
    /\ pc = "loop"
    /\ ~(AttemptsLeft(attempt, config)
         /\ Remaining(target_card_count, generated_cards) > 0)
    /\ pc' = "after_loop"
    /\ UNCHANGED <<request, config, attempt, target_card_count, temperature, model,
                   generated_cards, retention_aid, feedback, last_error,
                   context_summaries, calls,
                   responses, inflight, outcome>>
    /\ UNCHANGED nonAgentVars

\* Lines 210-223: too few cards were accepted.
Raise ==
    /\ pc = "after_loop"
    /\ Len(generated_cards) < target_card_count
    /\ outcome' = IF last_error # None
                  THEN Some([raised |-> last_error[1]])
                  ELSE Some([raised |-> GenericFailure])
    /\ pc' = "raised"
    /\ UNCHANGED <<request, config, attempt, target_card_count, temperature, model,
                   generated_cards, retention_aid, feedback, last_error,
                   context_summaries, calls,
                   responses, inflight>>
    /\ UNCHANGED nonAgentVars

\* Lines 225-241: the AgentResult.
Return ==
    /\ pc = "after_loop"
    /\ ~(Len(generated_cards) < target_card_count)
    /\ outcome' = Some([cards |-> EnforceCount(generated_cards, target_card_count),
                        retention_aid |-> retention_aid,
                        model_used |-> model,
                        temperature_applied |-> temperature,
                        requested_card_count |-> target_card_count])
    /\ pc' = "returned"
    /\ UNCHANGED <<request, config, attempt, target_card_count, temperature, model,
                   generated_cards, retention_aid, feedback, last_error,
                   context_summaries, calls,
                   responses, inflight>>
    /\ UNCHANGED nonAgentVars

AgentNext ==
    \/ Begin
    \/ Dispatch
    \/ ReceiveError
    \/ ReceiveBatch
    \/ LeaveLoop
    \/ Raise
    \/ Return

------------------------------------------------------------------------------
(* _resolve_schema                                                          *)
(*                                                                          *)
(* A JSON value is a record [t, keys, items, str]: an object has t = "obj", *)
(* its keys in insertion order and the value of each key at the same place  *)
(* in items; a list has t = "arr" and its elements in items; a string has   *)
(* t = "str" and in str the pieces it splits into at "/"; a number has      *)
(* t = "num" and null t = "null".                                           *)

Obj(keys, items) == [t |-> "obj", keys |-> keys, items |-> items, str |-> <<>>]
Arr(items) == [t |-> "arr", keys |-> <<>>, items |-> items, str |-> <<>>]
Str(pieces) == [t |-> "str", keys |-> <<>>, items |-> <<>>, str |-> pieces]
Num == [t |-> "num", keys |-> <<>>, items |-> <<>>, str |-> <<>>]
Null == [t |-> "null", keys |-> <<>>, items |-> <<>>, str |-> <<>>]

MaxNest == 1        \* deepest wrapping of a reference in the schema's body

\* `key in obj`
HasKey(obj, key) == \E i \in 1..Len(obj.keys) : obj.keys[i] = key

\* obj[key]
Get(obj, key) == obj.items[CHOOSE i \in 1..Len(obj.keys) : obj.keys[i] = key]

\* A raised GeminiClientError with its message, or a returned value.
Raised(message) == [ok |-> FALSE, value |-> Null, message |-> message]
Returned(value) == [ok |-> TRUE, value |-> value, message |-> ""]

\* ref_value.startswith("#/$defs/")
StartsWithDefs(pieces) ==
    Len(pieces) >= 3 /\ pieces[1] = "#" /\ pieces[2] = "$defs"

\* ref_value.split("/")[-1]
RefKey(pieces) == pieces[Len(pieces)]

\* The places of a sequence of keys that are not "$defs", in order.
RECURSIVE KeptPlaces(_, _)
KeptPlaces(keys, i) ==
    IF i > Len(keys) THEN <<>>
    ELSE (IF keys[i] # "$defs" THEN <<i>> ELSE <<>>) \o KeptPlaces(keys, i + 1)

\* The inner _resolve(obj, trail=...), with defs_obj as a parameter (None when
\* the schema has no $defs).  A comprehension stops at the first member that
\* raises.
RECURSIVE Resolve(_, _, _)
Resolve(obj, defs_obj, trail) ==
    IF obj.t = "obj" THEN
        IF HasKey(obj, "$ref") THEN
            LET ref_value == Get(obj, "$ref") IN
            IF ref_value.t # "str"
            THEN Raised("Invalid JSON schema: $ref must be a string.")
            ELSE IF ~StartsWithDefs(ref_value.str)
            THEN Raised("Unsupported $ref target")
            ELSE IF defs_obj = None \/ ~HasKey(defs_obj[1], RefKey(ref_value.str))
            THEN Raised("Missing $defs entry")
            ELSE IF \E i \in 1..Len(trail) : trail[i] = ref_value.str
            THEN Raised("Circular $ref detected")
            ELSE Resolve(Get(defs_obj[1], RefKey(ref_value.str)), defs_obj,
                         Append(trail, ref_value.str))
        ELSE
            LET kept == KeptPlaces(obj.keys, 1)
                rs == [j \in 1..Len(kept) |-> Resolve(obj.items[kept[j]], defs_obj, trail)]
                failed == {j \in 1..Len(kept) : ~rs[j].ok}
            IN
            IF failed # {}
            THEN rs[CHOOSE j \in failed : \A other \in failed : j <= other]
            ELSE Returned(Obj([j \in 1..Len(kept) |-> obj.keys[kept[j]]],
                              [j \in 1..Len(kept) |-> rs[j].value]))
    ELSE IF obj.t = "arr" THEN
        LET rs == [i \in 1..Len(obj.items) |-> Resolve(obj.items[i], defs_obj, trail)]
            failed == {i \in 1..Len(obj.items) : ~rs[i].ok}
        IN
        IF failed # {}
        THEN rs[CHOOSE i \in failed : \A other \in failed : i <= other]
        ELSE Returned(Arr([i \in 1..Len(obj.items) |-> rs[i].value]))
    ELSE Returned(obj)

\* _resolve_schema(schema), schema a JSON object
ResolveSchema(sch) ==
    IF ~HasKey(sch, "$defs") /\ ~HasKey(sch, "$ref")
    THEN Returned(sch)
    ELSE
        \* raw_defs = schema.get("$defs"): None when absent or null
        LET raw_defs == IF HasKey(sch, "$defs") /\ Get(sch, "$defs").t # "null"
                        THEN Some(Get(sch, "$defs")) ELSE None
        IN
        IF raw_defs # None /\ raw_defs[1].t # "obj"
        THEN Raised("Invalid JSON schema: $defs must be an object.")
        ELSE
            LET kept == KeptPlaces(sch.keys, 1)
                rs == [j \in 1..Len(kept) |-> Resolve(sch.items[kept[j]], raw_defs, <<>>)]
                failed == {j \in 1..Len(kept) : ~rs[j].ok}
            IN
            IF failed # {}
            THEN rs[CHOOSE j \in failed : \A other \in failed : j <= other]
            ELSE Returned(Obj([j \in 1..Len(kept) |-> sch.keys[kept[j]]],
                              [j \in 1..Len(kept) |-> rs[j].value]))

\* The schemas explored.
RefToA == Str(<<"#", "$defs", "A">>)
RefToB == Str(<<"#", "$defs", "B">>)
RefToMissing == Str(<<"#", "$defs", "Missing">>)
RefElsewhere == Str(<<"#", "definitions", "A">>)
Leaf == Obj(<<"type">>, <<Str(<<"string">>)>>)

RefNodes == {Obj(<<"$ref">>, <<target>>) :
                target \in {RefToA, RefToB, RefToMissing, RefElsewhere, Num}}

RECURSIVE Nested(_)
Nested(depth) ==
    IF depth = 0 THEN {Leaf} \cup RefNodes
    ELSE LET inner == Nested(depth - 1) IN
         inner
         \cup {Obj(<<"properties">>, <<Obj(<<"x">>, <<n>>)>>) : n \in inner}
         \cup {Obj(<<"anyOf">>, <<Arr(<<n, Leaf>>)>>) : n \in inner}
         \cup {Obj(<<"$defs", "items">>, <<Obj(<<"A">>, <<Leaf>>), n>>) : n \in inner}

DefinitionBodies ==
    {Leaf} \cup RefNodes
    \cup {Obj(<<"properties">>, <<Obj(<<"x">>, <<n>>)>>) : n \in RefNodes}

DefsChoices ==
    {None, Some(Null), Some(Arr(<<Leaf>>))}
    \cup {Some(Obj(<<"A">>, <<a>>)) : a \in DefinitionBodies}
    \cup {Some(Obj(<<"A", "B">>, <<a, b>>)) : a, b \in DefinitionBodies}

TopRefChoices == {None, Some(RefToA), Some(Num)}

Schemas ==
    {Obj(<<"type", "properties">>
             \o (IF defs = None THEN <<>> ELSE <<"$defs">>)
             \o (IF top = None THEN <<>> ELSE <<"$ref">>),
         <<Str(<<"object">>), Obj(<<"field">>, <<body>>)>> \o defs \o top)
     : body \in Nested(MaxNest), defs \in DefsChoices, top \in TopRefChoices}

SchemaInit == schema \in Schemas /\ resolved = None

\* generate_json, lines 226-229: the schema sent as responseJsonSchema.
ResolveResponseSchema ==
    /\ schema # None
    /\ resolved = None
    /\ resolved' = Some(ResolveSchema(schema))
    /\ UNCHANGED <<schema, agentVars, responseVars, restVars>>

------------------------------------------------------------------------------
(* GeminiGenerativeClient.generate_json: handling of the HTTP response      *)
(*                                                                          *)
(* A decoded JSON payload is [kind, body]: kind is "dict", "list" or         *)
(* "scalar" and body the tokens of its text.  A content part is              *)
(* [json, text]: each None when the part has no such field; a json field    *)
(* holds a payload, a text field holds [is_str, tokens].                     *)

MaxParts == 2       \* most content parts in a candidate

NoPayload == [kind |-> "none", body |-> <<>>]

ClientError(message) == [ok |-> FALSE, value |-> NoPayload, message |-> message]
Payload(value) == [ok |-> TRUE, value |-> value, message |-> ""]

\* json.loads(payload): the kind of the decoded value follows from how the
\* text opens and closes; text that is no JSON document raises JSONDecodeError.
JsonLoads(tokens) ==
    IF tokens = <<>> THEN [decoded |-> FALSE, value |-> NoPayload]
    ELSE IF tokens[1] = "{" /\ tokens[Len(tokens)] = "}"
    THEN [decoded |-> TRUE, value |-> [kind |-> "dict", body |-> tokens]]
    ELSE IF tokens[1] = "[" /\ tokens[Len(tokens)] = "]"
    THEN [decoded |-> TRUE, value |-> [kind |-> "list", body |-> tokens]]
    ELSE IF Len(tokens) = 1 /\ tokens[1] \in {"\"not-an-object\"", "12", "true", "null"}
    THEN [decoded |-> TRUE, value |-> [kind |-> "scalar", body |-> tokens]]
    ELSE [decoded |-> FALSE, value |-> NoPayload]

\* _parse_text_json
ParseTextJson(tokens) ==
    LET parsed == JsonLoads(tokens) IN
    IF ~parsed.decoded THEN ClientError("Gemini response was not valid JSON.")
    ELSE IF parsed.value.kind # "dict"
    THEN ClientError("Gemini response did not contain a JSON object.")
    ELSE Payload(parsed.value)

\* A mutant of ScanParts: every part is searched for a json field before any
\* text field is parsed.
RECURSIVE FirstJsonDict(_, _)
FirstJsonDict(parts, i) ==
    IF i > Len(parts) THEN None
    ELSE IF parts[i].json # None /\ parts[i].json[1].kind = "dict"
    THEN parts[i].json
    ELSE FirstJsonDict(parts, i + 1)

RECURSIVE FirstStrText(_, _)
FirstStrText(parts, i) ==
    IF i > Len(parts) THEN None
    ELSE IF parts[i].text # None /\ parts[i].text[1].is_str
    THEN Some(parts[i].text[1].tokens)
    ELSE FirstStrText(parts, i + 1)

ScanPartsJsonFirst(parts, i) ==
    IF FirstJsonDict(parts, i) # None THEN Payload(FirstJsonDict(parts, i)[1])
    ELSE IF FirstStrText(parts, i) # None THEN ParseTextJson(FirstStrText(parts, i)[1])
    ELSE ClientError("Unable to locate JSON payload in Gemini response.")

\* Lines 281-289: `for part in parts`, from the i-th part on.
RECURSIVE ScanParts(_, _)
ScanParts(parts, i) ==
    IF i > Len(parts)
    THEN ClientError("Unable to locate JSON payload in Gemini response.")
    ELSE IF parts[i].json # None /\ parts[i].json[1].kind = "dict"
    THEN Payload(parts[i].json[1])
    ELSE IF parts[i].text # None /\ parts[i].text[1].is_str
    THEN ParseTextJson(parts[i].text[1].tokens)
    ELSE ScanParts(parts, i + 1)

\* Lines 244-289: what generate_json makes of the response.
HandleResponse(resp) ==
    IF ~(resp.status \in 200..299)
    THEN ClientError("Gemini request failed")
    ELSE IF resp.promptFeedback # None /\ resp.promptFeedback[1].blockReason # None
    THEN ClientError("Gemini blocked the request")
    ELSE IF resp.candidates = <<>>
    THEN ClientError("Gemini response did not contain any candidates.")
    ELSE LET candidate == resp.candidates[1] IN
         IF candidate.finishReason # None
            /\ candidate.finishReason[1] \notin {"STOP", "FINISH"}
         THEN ClientError("Gemini did not finish successfully")
         ELSE ScanParts(candidate.parts, 1)

\* The responses explored.
JsonFields ==
    {None,
     Some([kind |-> "dict", body |-> <<"{", "\"cards\"", ":", "[", "]", "}">>]),
     Some([kind |-> "dict", body |-> <<"{", "\"other\"", ":", "1", "}">>]),
     Some([kind |-> "list", body |-> <<"[", "1", "]">>])}

TextFields ==
    {None,
     Some([is_str |-> FALSE, tokens |-> <<>>]),
     Some([is_str |-> TRUE, tokens |-> <<"{", "\"text\"", ":", "1", "}">>]),
     Some([is_str |-> TRUE, tokens |-> <<"\"not-an-object\"">>]),
     Some([is_str |-> TRUE, tokens |-> <<"[", "1", "]">>]),
     Some([is_str |-> TRUE, tokens |-> <<"oops">>])}

Parts == [json : JsonFields, text : TextFields]

PartLists == UNION {[1..n -> Parts] : n \in 0..MaxParts}

Candidates ==
    [finishReason : {None, Some("STOP"), Some("MAX_TOKENS")}, parts : PartLists]

\* Responses whose parts decide the outcome, and responses that fail before
\* the parts are looked at.
HttpResponses ==
    [status : {200}, promptFeedback : {None, Some([blockReason |-> None])},
     candidates : {<<c>> : c \in Candidates}]
    \cup
    [status : {200, 500},
     promptFeedback : {None, Some([blockReason |-> Some("SAFETY")])},
     candidates : {<<>>} \cup {<<c>> : c \in {x \in Candidates : Len(x.parts) <= 1}}]

ResponseInit ==
    /\ http_response \in {Some(r) : r \in HttpResponses}
    /\ json_result = None

\* generate_json from the arrival of the HTTP response to its return or raise.
ReceiveHttpResponse ==
    /\ http_response # None
    /\ json_result = None
    /\ json_result' = Some(HandleResponse(http_response[1]))
    /\ UNCHANGED <<http_response, agentVars, schemaVars, restVars>>

------------------------------------------------------------------------------
(* NativePDFContextStrategy.build_context and GeminiGenerativeClient.upload_file *)
(*                                                                          *)
(* A file is [filename, size]; a document is [filename, source], source the  *)
(* position of its file; an extra part is [kind, source, file_uri].          *)

MaxFiles == 2       \* most files handed to build_context

MAX_INLINE_BYTES == 20971520    \* 20 * 1024 * 1024, the default inline threshold

\* `item.filename or "uploaded.pdf"`: None and "" are falsy.
DisplayName(filename) ==
    IF filename = None \/ filename = Some("") THEN "uploaded.pdf" ELSE filename[1]

\* upload_file, lines 291-366: the start request must succeed and carry an
\* upload URL, the upload must succeed and carry a file URI.
UploadFile(exchange) ==
    IF ~exchange.start_ok
    THEN [ok |-> FALSE, file_uri |-> "", message |-> "Gemini upload initialisation failed"]
    ELSE IF ~exchange.has_upload_url
    THEN [ok |-> FALSE, file_uri |-> "", message |-> "Gemini did not provide an upload URL."]
    ELSE IF ~exchange.upload_ok
    THEN [ok |-> FALSE, file_uri |-> "", message |-> "Gemini upload failed"]
    ELSE IF ~exchange.has_file_uri
    THEN [ok |-> FALSE, file_uri |-> "", message |-> "Gemini upload response missing file URI."]
    ELSE [ok |-> TRUE, file_uri |-> exchange.file_uri, message |-> ""]

\* What the file API can answer to the two requests of one upload.
UploadExchanges ==
    [start_ok : BOOLEAN, has_upload_url : BOOLEAN, upload_ok : BOOLEAN,
     has_file_uri : BOOLEAN, file_uri : {"files/pdf"}]

\* A mutant of TakesUploadRoute: a file of exactly the threshold is uploaded.
TakesUploadRouteFromThreshold(file, inline_threshold) == file.size >= inline_threshold

\* Line 99: `len(item.payload) > self._inline_threshold`.
TakesUploadRoute(file, inline_threshold) == file.size > inline_threshold

InlineDataPart(source) == [kind |-> "inline_data", source |-> source, file_uri |-> ""]
FilePart(source, file_uri) == [kind |-> "file", source |-> source, file_uri |-> file_uri]

\* A mutant of AfterUpload: a file whose upload failed is sent inline instead.
AfterUploadFallsBackInline(parts, source, uploaded) ==
    IF uploaded.ok THEN Append(parts, FilePart(source, uploaded.file_uri))
    ELSE Append(parts, InlineDataPart(source))

\* Lines 100-129: the try / except GeminiClientError / else around upload_file.
AfterUpload(parts, source, uploaded) ==
    IF uploaded.ok THEN Append(parts, FilePart(source, uploaded.file_uri)) ELSE parts

UploadedPDFs ==
    [filename : {None, Some("a.pdf")},
     size : {MAX_INLINE_BYTES - 1, MAX_INLINE_BYTES, MAX_INLINE_BYTES + 1}]

PdfInit ==
    /\ files \in UNION {[1..n -> UploadedPDFs] : n \in 0..MaxFiles}
    /\ pdf_pc = "loop"
    /\ documents = <<>>
    /\ extras = <<>>
    /\ uploads = <<>>
    /\ pdf_context = None

PdfIdle ==
    /\ files = None
    /\ pdf_pc = "idle"
    /\ documents = None
    /\ extras = None
    /\ uploads = None
    /\ pdf_context = None

\* One iteration of `for item in files` for a file above the threshold
\* (lines 96-129 and 145): ingest, upload, append the file part on success.
UploadLargeFile ==
    /\ pdf_pc = "loop"
    /\ Len(documents) < Len(files)
    /\ LET source == Len(documents) + 1
           item == files[source] IN
       /\ TakesUploadRoute(item, MAX_INLINE_BYTES)
       /\ \E exchange \in UploadExchanges :
            LET uploaded == UploadFile(exchange) IN
            /\ uploads' = Append(uploads, [source |-> source,
                                           display_name |-> DisplayName(item.filename),
                                           size |-> item.size,
                                           ok |-> uploaded.ok])
            /\ extras' = AfterUpload(extras, source, uploaded)
       /\ documents' = Append(documents, [filename |-> item.filename, source |-> source])
    /\ UNCHANGED <<files, pdf_pc, pdf_context, agentVars, schemaVars, responseVars, cardVars, persistVars, jobVars, authVars, genVars, uploadVars, mapVars, ingestVars, loginVars>>

\* One iteration for a file at or below the threshold (lines 96-99, 130-145).
EmbedSmallFile ==
    /\ pdf_pc = "loop"
    /\ Len(documents) < Len(files)
    /\ LET source == Len(documents) + 1
           item == files[source] IN
       /\ ~TakesUploadRoute(item, MAX_INLINE_BYTES)
       /\ extras' = Append(extras, InlineDataPart(source))
       /\ documents' = Append(documents, [filename |-> item.filename, source |-> source])
    /\ UNCHANGED <<files, pdf_pc, uploads, pdf_context, agentVars, schemaVars, responseVars, cardVars, persistVars, jobVars, authVars, genVars, uploadVars, mapVars, ingestVars, loginVars>>

\* Line 147.
ReturnContext ==
    /\ pdf_pc = "loop"
    /\ Len(documents) = Len(files)
    /\ pdf_context' = Some([documents |-> documents, extra_parts |-> extras])
    /\ pdf_pc' = "returned"
    /\ UNCHANGED <<files, documents, extras, uploads, agentVars, schemaVars, responseVars, cardVars, persistVars, jobVars, authVars, genVars, uploadVars, mapVars, ingestVars, loginVars>>

PdfNext == UploadLargeFile \/ EmbedSmallFile \/ ReturnContext

------------------------------------------------------------------------------
(* Typed card data (domain/schemas/study_cards.py)                          *)
(*                                                                          *)
(* A str that the code strips or tests for emptiness is a sequence of       *)
(* characters; list items are atoms.  An instance is one record for all     *)
(* classes: `model` names the class and the fields the class does not       *)
(* declare stay at their blank value.  The instances explored carry no      *)
(* generator, rationale, glossary, connections, references or ranges.       *)

MaxChoices == 2     \* most options and most correct ids of a multiple-choice card

Blank ==
    [model |-> "", title |-> <<>>, markdown |-> <<>>, prompt |-> <<>>,
     options |-> <<>>, correct_option_ids |-> <<>>, expected_answer |-> None,
     correct_answer |-> None, cloze_answers |-> <<>>, instructions |-> None,
     premises |-> <<>>, matches |-> <<>>, payload |-> None]

ValidationFailure(message) == [ok |-> FALSE, instance |-> Blank, message |-> message]
Built(instance) == [ok |-> TRUE, instance |-> instance, message |-> ""]

Range(seq) == {seq[i] : i \in DOMAIN seq}

\* MultipleChoiceCardData._validate_option_ids
ValidateOptionIds(kwargs) ==
    IF kwargs.correct_option_ids = <<>>
    THEN "At least one correct option identifier is required."
    ELSE IF \E i \in DOMAIN kwargs.correct_option_ids :
                kwargs.correct_option_ids[i] \notin Range(kwargs.options)
    THEN "Unknown option identifiers referenced"
    ELSE ""

\* A mutant of ValidateSingle: nothing is required of the number of ids.
ValidateSingleAnyCount(kwargs) == ""

\* McqSingleCardData._validate_single
ValidateSingle(kwargs) ==
    IF Len(kwargs.correct_option_ids) # 1
    THEN "MCQ single cards must have exactly one correct option identifier."
    ELSE ""

\* McqMultiCardData._validate_multi
ValidateMulti(kwargs) ==
    IF Len(kwargs.correct_option_ids) < 2
    THEN "MCQ multi cards must have at least two correct option identifiers."
    ELSE ""

\* Construction of a card data class from keyword arguments: the `after`
\* validators of the class run in the order of the class hierarchy, and the
\* first that raises fails the construction.
Construct(kwargs) ==
    IF kwargs.model \in {"McqSingleCardData", "McqMultiCardData"}
    THEN IF ValidateOptionIds(kwargs) # ""
         THEN ValidationFailure(ValidateOptionIds(kwargs))
         ELSE IF kwargs.model = "McqSingleCardData" /\ ValidateSingle(kwargs) # ""
         THEN ValidationFailure(ValidateSingle(kwargs))
         ELSE IF kwargs.model = "McqMultiCardData" /\ ValidateMulti(kwargs) # ""
         THEN ValidationFailure(ValidateMulti(kwargs))
         ELSE Built(kwargs)
    ELSE Built(kwargs)

\* _CARD_TYPE_TO_MODEL, read from the class to the card type.
CardTypeOf(model_name) ==
    CASE model_name = "NoteCardData" -> "note"
      [] model_name = "McqSingleCardData" -> "mcq_single"
      [] model_name = "McqMultiCardData" -> "mcq_multi"
      [] model_name = "WrittenCardData" -> "written"
      [] model_name = "TrueFalseCardData" -> "true_false"
      [] model_name = "ClozeCardData" -> "cloze"
      [] model_name = "EmqCardData" -> "emq"
      [] OTHER -> "flashcard"

\* A stored payload: every key the parser reads or a class writes, None when
\* the key is absent or null.
NoKeys ==
    [title |-> None, markdown |-> None, heading |-> None, payload |-> None,
     prompt |-> None, question |-> None, options |-> None,
     correct_option_ids |-> None, correct_answers |-> None,
     correct_answer |-> None, expected_answer |-> None, cloze_answers |-> None,
     instructions |-> None, premises |-> None, matches |-> None,
     correct_matches |-> None]

\* _serialize_card_data: model_dump(mode="json") writes the fields the class
\* declares, under their own names.
SerializeCardData(data) ==
    CASE data.model = "NoteCardData" ->
            [NoKeys EXCEPT !.title = Some(data.title), !.markdown = Some(data.markdown)]
      [] data.model \in {"McqSingleCardData", "McqMultiCardData"} ->
            [NoKeys EXCEPT !.prompt = Some(data.prompt), !.options = Some(data.options),
                           !.correct_option_ids = Some(data.correct_option_ids)]
      [] data.model = "WrittenCardData" ->
            [NoKeys EXCEPT !.prompt = Some(data.prompt),
                           !.expected_answer = data.expected_answer]
      [] data.model = "TrueFalseCardData" ->
            [NoKeys EXCEPT !.prompt = Some(data.prompt),
                           !.correct_answer = data.correct_answer]
      [] data.model = "ClozeCardData" ->
            [NoKeys EXCEPT !.prompt = Some(data.prompt),
                           !.cloze_answers = Some(data.cloze_answers)]
      [] data.model = "EmqCardData" ->
            [NoKeys EXCEPT !.prompt = Some(data.prompt),
                           !.instructions = data.instructions,
                           !.premises = Some(data.premises),
                           !.options = Some(data.options),
                           !.matches = Some(data.matches)]
      [] OTHER -> NoKeys

\* `a or b` on two dict.get results: None, "" and [] are falsy.
OrGet(a, b) == IF a = None \/ a = Some(<<>>) THEN b ELSE a

\* _coerce_str_list on a dict.get result that is a list or None.
CoerceStrList(value) == IF value = None THEN <<>> ELSE value[1]

\* _parse_bool on a str
ParseBool(str) ==
    IF str \in {"true", "t", "1", "yes", "y"} THEN Some(TRUE)
    ELSE IF str \in {"false", "f", "0", "no", "n"} THEN Some(FALSE)
    ELSE None

NotConverted == [converted |-> FALSE, raised |-> FALSE, instance |-> Blank]
Converted(built) == [converted |-> built.ok, raised |-> ~built.ok, instance |-> built.instance]

\* _convert_card_data, lines 277-282
ConvertTrueFalse(payload_dict, prompt) ==
    LET correct_answers == CoerceStrList(payload_dict.correct_answers)
        answer == IF correct_answers # <<>> THEN ParseBool(correct_answers[1]) ELSE None IN
    IF answer = None THEN NotConverted
    ELSE Converted(Construct([Blank EXCEPT !.model = "TrueFalseCardData",
                                           !.prompt = prompt,
                                           !.correct_answer = answer]))

\* _convert_card_data, lines 213-225
ConvertNote(payload_dict) ==
    IF payload_dict.markdown = None THEN NotConverted
    ELSE LET title_value == payload_dict.title
             heading == payload_dict.heading
             title_str ==
                 IF title_value # None /\ Strip(title_value[1]) # <<>>
                 THEN Strip(title_value[1])
                 ELSE IF heading # None /\ Strip(heading[1]) # <<>>
                 THEN Strip(heading[1])
                 ELSE <<"N", "o", "t", "e">> IN
         Converted(Construct([Blank EXCEPT !.model = "NoteCardData",
                                           !.title = title_str,
                                           !.markdown = payload_dict.markdown[1]]))

\* _convert_card_data, lines 244-270
ConvertMultipleChoice(card_type, payload_dict, prompt) ==
    LET options == CoerceStrList(payload_dict.options)
        correct_ids == CoerceStrList(OrGet(payload_dict.correct_option_ids,
                                           payload_dict.correct_answers)) IN
    IF options = <<>> THEN NotConverted
    ELSE IF card_type = "mcq_single"
    THEN IF Len(correct_ids) # 1 THEN NotConverted
         ELSE Converted(Construct([Blank EXCEPT !.model = "McqSingleCardData",
                                                !.prompt = prompt,
                                                !.options = options,
                                                !.correct_option_ids = <<correct_ids[1]>>]))
    ELSE IF Len(correct_ids) < 2 THEN NotConverted
         ELSE Converted(Construct([Blank EXCEPT !.model = "McqMultiCardData",
                                                !.prompt = prompt,
                                                !.options = options,
                                                !.correct_option_ids = correct_ids]))

\* _convert_card_data, lines 205-310, on a dict
ConvertCardData(card_type, raw_data) ==
    LET payload_dict == IF raw_data.payload # None THEN raw_data.payload[1] ELSE raw_data IN
    IF card_type = "note" THEN ConvertNote(payload_dict)
    ELSE IF card_type \in {"mcq_single", "mcq_multi", "written", "true_false", "cloze", "emq"}
    THEN LET prompt == OrGet(payload_dict.prompt, payload_dict.question) IN
         IF prompt = None THEN NotConverted
         ELSE IF card_type \in {"mcq_single", "mcq_multi"}
         THEN ConvertMultipleChoice(card_type, payload_dict, prompt[1])
         ELSE IF card_type = "written"
         THEN LET correct_answers == CoerceStrList(payload_dict.correct_answers) IN
              Converted(Construct([Blank EXCEPT
                  !.model = "WrittenCardData", !.prompt = prompt[1],
                  !.expected_answer = IF correct_answers # <<>>
                                      THEN Some(correct_answers[1]) ELSE None]))
         ELSE IF card_type = "true_false"
         THEN ConvertTrueFalse(payload_dict, prompt[1])
         ELSE IF card_type = "cloze"
         THEN Converted(Construct([Blank EXCEPT
                  !.model = "ClozeCardData", !.prompt = prompt[1],
                  !.cloze_answers = CoerceStrList(OrGet(payload_dict.cloze_answers,
                                                        payload_dict.correct_answers))]))
         ELSE Converted(Construct([Blank EXCEPT
                  !.model = "EmqCardData", !.prompt = prompt[1],
                  !.instructions = payload_dict.instructions,
                  !.premises = CoerceStrList(payload_dict.premises),
                  !.options = CoerceStrList(payload_dict.options),
                  !.matches = CoerceStrList(OrGet(payload_dict.matches,
                                                  payload_dict.correct_matches))]))
    ELSE NotConverted

\* parse_card_data on a dict: the converted instance, else GenericCardData.
ParseCardData(card_type, raw_data) ==
    LET converted == ConvertCardData(card_type, raw_data) IN
    IF converted.raised THEN ValidationFailure("ValidationError")
    ELSE IF converted.converted THEN Built(converted.instance)
    ELSE Built([Blank EXCEPT
             !.model = "GenericCardData",
             !.payload = Some(IF raw_data.payload # None THEN raw_data.payload[1]
                              ELSE raw_data)])

\* The constructions explored.
Titles == {<<>>, <<"T">>, <<" ", "T">>, <<" ">>}
Markdowns == {<<>>, <<"m">>}
Prompts == {<<>>, <<"Q">>}
OptionLists == UNION {[1..n -> {"A", "B"}] : n \in 0..MaxChoices}
CorrectIdLists == UNION {[1..n -> {"A", "B", "Z"}] : n \in 0..MaxChoices}

CardConstructions ==
    {[Blank EXCEPT !.model = "NoteCardData", !.title = t, !.markdown = m]
        : t \in Titles, m \in Markdowns}
    \cup
    {[Blank EXCEPT !.model = cls, !.prompt = q, !.options = o, !.correct_option_ids = c]
        : cls \in {"McqSingleCardData", "McqMultiCardData"}, q \in Prompts,
          o \in OptionLists, c \in CorrectIdLists}
    \cup
    {[Blank EXCEPT !.model = "WrittenCardData", !.prompt = q, !.expected_answer = e]
        : q \in Prompts, e \in {None, Some("answer")}}
    \cup
    {[Blank EXCEPT !.model = "TrueFalseCardData", !.prompt = q, !.correct_answer = Some(b)]
        : q \in Prompts, b \in BOOLEAN}
    \cup
    {[Blank EXCEPT !.model = "ClozeCardData", !.prompt = q, !.cloze_answers = a]
        : q \in Prompts, a \in {<<>>, <<"gap">>}}
    \cup
    {[Blank EXCEPT !.model = "EmqCardData", !.prompt = q, !.instructions = i,
                   !.premises = <<"premise">>, !.options = <<"A", "B">>, !.matches = x]
        : q \in Prompts, i \in {None, Some("match")}, x \in {<<>>, << <<0, 1>> >>}}

CardInit ==
    /\ card_input \in {Some(k) : k \in CardConstructions}
    /\ card_instance = None
    /\ card_parsed = None
    /\ existing_card_ids = None
    /\ existing_questions = None
    /\ get_many_calls = 0

CardIdle ==
    /\ card_input = None
    /\ card_instance = None
    /\ card_parsed = None
    /\ existing_card_ids = None
    /\ existing_questions = None
    /\ get_many_calls = 0

\* The class is called with the keyword arguments.
ConstructCard ==
    /\ card_input # None
    /\ card_instance = None
    /\ card_instance' = Some(Construct(card_input[1]))
    /\ UNCHANGED <<card_input, card_parsed, existing_card_ids, existing_questions,
                   get_many_calls, agentVars, schemaVars, responseVars, pdfVars,
                   persistVars, jobVars, authVars, genVars, uploadVars, mapVars, ingestVars, loginVars>>

\* The instance is stored by the repository (_serialize_card_data) and read
\* back through StudyCardBase._coerce_data_model (parse_card_data).
StoreAndParseCard ==
    /\ card_instance # None
    /\ card_instance[1].ok
    /\ card_parsed = None
    /\ card_parsed' = Some(ParseCardData(CardTypeOf(card_instance[1].instance.model),
                                         SerializeCardData(card_instance[1].instance)))
    /\ UNCHANGED <<card_input, card_instance, existing_card_ids, existing_questions,
                   get_many_calls, agentVars, schemaVars, responseVars, pdfVars,
                   persistVars, jobVars, authVars, genVars, uploadVars, mapVars, ingestVars, loginVars>>

QuestionClasses ==
    {"McqSingleCardData", "McqMultiCardData", "WrittenCardData", "TrueFalseCardData",
     "ClozeCardData", "EmqCardData"}

\* _extract_question_from_data: the stripped prompt of a record whose data
\* parses to a QuestionCardData, else None.
ExtractQuestionFromData(card_type, data) ==
    LET parsed == ParseCardData(card_type, data) IN
    IF parsed.ok /\ parsed.instance.model \in QuestionClasses
    THEN Some(Strip(parsed.instance.prompt))
    ELSE None

\* _load_existing_questions, lines 136-142: the loop over the records, a
\* record being [card_type, data]; `if question` drops None and "".
RECURSIVE QuestionsOfRecords(_)
QuestionsOfRecords(records) ==
    IF records = <<>> THEN <<>>
    ELSE LET question == ExtractQuestionFromData(records[1].card_type, records[1].data) IN
         (IF question # None /\ question[1] # <<>> THEN <<question[1]>> ELSE <<>>)
         \o QuestionsOfRecords(Tail(records))

\* _load_existing_questions on the ids of the request: the stored card is
\* referenced or no card is; the repository is asked only for a non-empty
\* list of ids.
LoadExistingQuestions ==
    /\ card_instance # None
    /\ card_instance[1].ok
    /\ existing_questions = None
    /\ \E card_ids \in {<<>>, <<1>>} :
         /\ existing_card_ids' = Some(card_ids)
         /\ IF card_ids = <<>>
            THEN /\ existing_questions' = Some(<<>>)
                 /\ UNCHANGED get_many_calls
            ELSE LET record == [card_type |-> CardTypeOf(card_instance[1].instance.model),
                                data |-> SerializeCardData(card_instance[1].instance)] IN
                 /\ get_many_calls' = get_many_calls + 1
                 /\ existing_questions' = Some(QuestionsOfRecords(<<record>>))
    /\ UNCHANGED <<card_input, card_instance, card_parsed, agentVars, schemaVars,
                   responseVars, pdfVars, persistVars, jobVars, authVars, genVars, uploadVars, mapVars, ingestVars, loginVars>>

CardNext == ConstructCard \/ StoreAndParseCard \/ LoadExistingQuestions

------------------------------------------------------------------------------
(* AiStudyCardService._persist_generated_cards (generation_service.py)      *)
(*                                                                          *)
(* A generated card is [card_type, primary, glossary_title, options,        *)
(* correct_answers]: primary is payload.rationale.primary, glossary_title   *)
(* is payload.glossary.get("title").                                        *)

MaxCards == 2       \* most cards in an AgentResult

\* str.splitlines() on "\n"
RECURSIVE SplitLines(_, _)
SplitLines(str, line) ==
    IF str = <<>> THEN (IF line = <<>> THEN <<>> ELSE <<line>>)
    ELSE IF \A i \in DOMAIN str : str[i] # "\n" THEN <<line \o str>>
    ELSE LET first == CHOOSE i \in DOMAIN str :
                          str[i] = "\n" /\ \A j \in 1..(i - 1) : str[j] # "\n" IN
         <<line \o SubSeq(str, 1, first - 1)>>
         \o SplitLines(SubSeq(str, first + 1, Len(str)), <<>>)

\* str.lstrip("#")
LStripHashes(str) ==
    IF \A i \in DOMAIN str : str[i] = "#" THEN <<>>
    ELSE SubSeq(str,
                CHOOSE i \in DOMAIN str :
                    str[i] # "#" /\ \A j \in 1..(i - 1) : str[j] = "#",
                Len(str))

LineLimit == 80     \* `stripped[:80]` in _extract_heading

\* _extract_heading, the loop over the lines
RECURSIVE HeadingOfLines(_)
HeadingOfLines(lines) ==
    IF lines = <<>> THEN None
    ELSE LET stripped == Strip(lines[1]) IN
         IF stripped # <<>> /\ stripped[1] = "#"
         THEN Some(Strip(LStripHashes(stripped)))
         ELSE IF stripped # <<>>
         THEN Some(Strip(SubSeq(stripped, 1, Min(Len(stripped), LineLimit))))
         ELSE HeadingOfLines(Tail(lines))

\* _extract_heading
ExtractHeading(markdown) ==
    IF markdown = <<>> THEN None ELSE HeadingOfLines(SplitLines(markdown, <<>>))

\* A mutant of HeadingOr: a blank heading gives way to the first line.
HeadingOrFirstLine(markdown, default) ==
    IF ExtractHeading(markdown) = None \/ ExtractHeading(markdown) = Some(<<>>)
    THEN SplitLines(markdown, <<>>)[1]
    ELSE ExtractHeading(markdown)[1]

\* `_extract_heading(markdown) or default`: None and "" are falsy.
HeadingOr(markdown, default) ==
    IF ExtractHeading(markdown) = None \/ ExtractHeading(markdown) = Some(<<>>)
    THEN default
    ELSE ExtractHeading(markdown)[1]

Mapped(data) == [raised |-> FALSE, data |-> data]
MappingRaised == [raised |-> TRUE, data |-> Blank]

\* A mutant of MapNoteCard: a note without markdown becomes a generic card.
MapNoteCardBlankToGeneric(card) ==
    IF Strip(card.primary) = <<>>
    THEN Mapped([Blank EXCEPT !.model = "GenericCardData"])
    ELSE Mapped([Blank EXCEPT !.model = "NoteCardData",
                              !.title = HeadingOr(Strip(card.primary), <<"N", "o", "t", "e">>),
                              !.markdown = Strip(card.primary)])

\* _map_card_to_data, lines 252-265
MapNoteCard(card) ==
    LET markdown == Strip(card.primary)
        title_value == card.glossary_title
        title == Strip(IF title_value # None /\ Strip(title_value[1]) # <<>>
                       THEN Strip(title_value[1])
                       ELSE HeadingOr(markdown, <<"N", "o", "t", "e">>)) IN
    IF markdown = <<>> THEN MappingRaised
    ELSE IF title = <<>> THEN MappingRaised
    ELSE Mapped([Blank EXCEPT !.model = "NoteCardData", !.title = title,
                              !.markdown = markdown])

\* _map_card_to_data, lines 271-275: the fallback carries the dumped payload.
GenericFallback(card) ==
    Mapped([Blank EXCEPT !.model = "GenericCardData", !.payload = Some(card)])

\* Lines 187 and 266-270: a construction that raises ValidationError falls
\* back to GenericCardData.
TypedOrGeneric(card, built) ==
    IF built.ok THEN Mapped(built.instance) ELSE GenericFallback(card)

\* A mutant of MapMcqSingleCard: the validation error leaves the method.
MapMcqSingleCardPropagates(card) ==
    LET correct_ids == IF card.correct_answers # <<>> THEN card.correct_answers
                       ELSE IF card.options # <<>> THEN <<card.options[1]>> ELSE <<>>
        built == Construct([Blank EXCEPT !.model = "McqSingleCardData",
                                         !.prompt = <<"Q">>,
                                         !.options = card.options,
                                         !.correct_option_ids = correct_ids]) IN
    IF built.ok THEN Mapped(built.instance) ELSE MappingRaised

\* _map_card_to_data, lines 199-206
MapMcqSingleCard(card) ==
    LET correct_ids == IF card.correct_answers # <<>> THEN card.correct_answers
                       ELSE IF card.options # <<>> THEN <<card.options[1]>> ELSE <<>>
    IN  TypedOrGeneric(card, Construct([Blank EXCEPT
            !.model = "McqSingleCardData",
            !.prompt = <<"Q">>,
            !.options = card.options,
            !.correct_option_ids = correct_ids]))

\* _map_card_to_data, lines 208-215
MapMcqMultiCard(card) ==
    LET correct_ids == IF card.correct_answers # <<>> THEN card.correct_answers
                       ELSE SubSeq(card.options, 1, Min(2, Len(card.options)))
    IN  TypedOrGeneric(card, Construct([Blank EXCEPT
            !.model = "McqMultiCardData",
            !.prompt = <<"Q">>,
            !.options = card.options,
            !.correct_option_ids = correct_ids]))

\* _map_card_to_data, lines 217-219
MapWrittenCard(card) ==
    TypedOrGeneric(card, Construct([Blank EXCEPT
        !.model = "WrittenCardData",
        !.prompt = <<"Q">>,
        !.expected_answer = IF card.correct_answers # <<>>
                            THEN Some(card.correct_answers[1]) ELSE None]))

\* _parse_boolean_answer; the answers explored are lower-case and carry no
\* surrounding whitespace.
ParseBooleanAnswer(correct_answers) ==
    IF correct_answers = <<>> THEN None ELSE ParseBool(correct_answers[1])

\* _map_card_to_data, lines 221-225
MapTrueFalseCard(card) ==
    LET answer == ParseBooleanAnswer(card.correct_answers) IN
    TypedOrGeneric(card, Construct([Blank EXCEPT
        !.model = "TrueFalseCardData",
        !.prompt = <<"Q">>,
        !.correct_answer = IF answer = None THEN Some(TRUE) ELSE answer]))

\* _map_card_to_data, lines 227-231
MapClozeCard(card) ==
    TypedOrGeneric(card, Construct([Blank EXCEPT
        !.model = "ClozeCardData",
        !.prompt = <<"Q">>,
        !.cloze_answers = card.correct_answers]))

\* int(option_id) of the answers explored: None where int raises.
IntOf(str) ==
    IF str = "0" THEN Some(0) ELSE IF str = "1" THEN Some(1) ELSE None

\* Lines 234-244: a match for every answer that int accepts, at its index.
RECURSIVE EmqMatches(_, _)
EmqMatches(correct_answers, index) ==
    IF correct_answers = <<>> THEN <<>>
    ELSE (IF IntOf(correct_answers[1]) # None
          THEN << <<index, IntOf(correct_answers[1])[1]>> >> ELSE <<>>)
         \o EmqMatches(Tail(correct_answers), index + 1)

\* _map_card_to_data, lines 233-251
MapEmqCard(card) ==
    TypedOrGeneric(card, Construct([Blank EXCEPT
        !.model = "EmqCardData",
        !.prompt = <<"Q">>,
        !.options = card.options,
        !.matches = EmqMatches(card.correct_answers, 0)]))

\* _map_card_to_data
MapCardToData(card) ==
    IF card.card_type = "mcq_single" THEN MapMcqSingleCard(card)
    ELSE IF card.card_type = "mcq_multi" THEN MapMcqMultiCard(card)
    ELSE IF card.card_type = "written" THEN MapWrittenCard(card)
    ELSE IF card.card_type = "true_false" THEN MapTrueFalseCard(card)
    ELSE IF card.card_type = "cloze" THEN MapClozeCard(card)
    ELSE IF card.card_type = "emq" THEN MapEmqCard(card)
    ELSE IF card.card_type = "note" THEN MapNoteCard(card)
    ELSE GenericFallback(card)

\* _build_retention_note
BuildRetentionNote(retention_markdown) ==
    LET markdown == Strip(retention_markdown) IN
    IF markdown = <<>> THEN MappingRaised
    ELSE Mapped([Blank EXCEPT
            !.model = "NoteCardData",
            !.title = Strip(HeadingOr(markdown,
                        <<"R", "e", "t", "e", "n", "t", "i", "o", "n", " ", "A", "i", "d">>)),
            !.markdown = markdown])

\* A mutant of IncludeRetentionNote: the preferred card types are not asked.
IncludeRetentionNoteAnyTypes(meta, req) ==
    meta.retention_aid # None /\ req.include_retention_aid

\* Lines 163-167
IncludeRetentionNote(meta, req) ==
    /\ meta.retention_aid # None
    /\ req.include_retention_aid
    /\ \/ req.preferred_card_types = <<>>
       \/ "note" \in Range(req.preferred_card_types)

StudyCardCreate(card_type, data) == [card_type |-> card_type, data |-> data]

\* Lines 154-162: the payloads of the generated cards, up to the first
\* mapping that raises.
RECURSIVE CardPayloads(_)
CardPayloads(cards) ==
    IF cards = <<>> THEN [raised |-> FALSE, cards |-> <<>>]
    ELSE LET mapped == MapCardToData(cards[1]) IN
         IF mapped.raised THEN [raised |-> TRUE, cards |-> <<>>]
         ELSE LET rest == CardPayloads(Tail(cards)) IN
              IF rest.raised THEN rest
              ELSE [raised |-> FALSE,
                    cards |-> <<StudyCardCreate(cards[1].card_type, mapped.data)>>
                              \o rest.cards]

\* _persist_generated_cards: the batch import_card_batch is called with, or
\* the ValueError that leaves the method before the call.
PersistGeneratedCards(meta, req) ==
    LET payloads == CardPayloads(meta.cards) IN
    IF payloads.raised THEN payloads
    ELSE IF IncludeRetentionNote(meta, req)
    THEN LET note == BuildRetentionNote(meta.retention_aid[1]) IN
         IF note.raised THEN [raised |-> TRUE, cards |-> <<>>]
         ELSE [raised |-> FALSE,
               cards |-> Append(payloads.cards, StudyCardCreate("note", note.data))]
    ELSE payloads

\* The agent results and requests explored.
GeneratedCards ==
    [card_type : {"note"},
     primary : {<<>>, <<" ", "\t">>, <<"m">>, <<"#", "T", "\n", "m">>},
     glossary_title : {None, Some(<<"G">>)},
     options : {<<>>},
     correct_answers : {<<>>}]
    \cup
    [card_type : {"mcq_single"},
     primary : {<<"r">>},
     glossary_title : {None},
     options : {<<>>, <<"A", "B">>},
     correct_answers : {<<>>, <<"A">>, <<"Z">>}]

AgentResults ==
    [cards : UNION {[1..n -> GeneratedCards] : n \in 1..MaxCards},
     retention_aid : {None, Some(<<>>), Some(<<" ">>), Some(<<"m">>),
                      Some(<<"#", " ", "R", "\n", "m">>)}]

PersistRequests ==
    [include_retention_aid : BOOLEAN,
     preferred_card_types : {<<>>, <<"note">>, <<"mcq_single">>, <<"mcq_single", "note">>}]

PersistInit ==
    /\ agent_result \in {Some(a) : a \in AgentResults}
    /\ persist_request \in {Some(q) : q \in PersistRequests}
    /\ persisted = None

PersistIdle == agent_result = None /\ persist_request = None /\ persisted = None

\* generate_from_pdfs, lines 107-112: the agent's cards are mapped and handed
\* to the card storage in one batch.
PersistCards ==
    /\ agent_result # None
    /\ persisted = None
    /\ persisted' = Some(PersistGeneratedCards(agent_result[1], persist_request[1]))
    /\ UNCHANGED <<agent_result, persist_request, agentVars, schemaVars, responseVars,
                   pdfVars, cardVars, jobVars, authVars, genVars, uploadVars, mapVars, ingestVars, loginVars>>

PersistNext == PersistCards

------------------------------------------------------------------------------
(* Job processors (services/job_processors.py)                              *)
(*                                                                          *)
(* A row is [status, started_at, completed_at, error, result]: the two      *)
(* timestamps and the result as "set or not", error None or a message.      *)

MaxFailures == 2    \* number of distinct exceptions a step can raise

GENERIC_JOB_ERROR_MESSAGE == "Job failed; please contact support."

JobTypes == {"clone", "export", "ai_generation"}

Exceptions == {"exception " \o ToString(n) \o ": sensitive backend detail" : n \in 1..MaxFailures}

PendingRow ==
    [status |-> "pending", started_at |-> FALSE, completed_at |-> FALSE,
     error |-> None, result |-> FALSE]

\* JobRepository.set_status: the columns whose argument is None stay as they are.
SetStatus(row, status, started_at, completed_at, error) ==
    [row EXCEPT !.status = status,
                !.started_at = IF started_at THEN TRUE ELSE @,
                !.completed_at = IF completed_at THEN TRUE ELSE @,
                !.error = IF error # None THEN error ELSE @]

\* JobRepository.set_result
SetResult(row) == [row EXCEPT !.result = TRUE]

\* A mutant of FailureMessage: the text of the exception is stored.
FailureMessageOfException(exc) == exc

\* _mark_job_failed, line 276: the error stored for a failed job.
FailureMessage(exc) == GENERIC_JOB_ERROR_MESSAGE

JobInit ==
    /\ job_type \in JobTypes
    /\ api_key_configured \in BOOLEAN
    /\ job_row \in {None, Some(PendingRow)}
    /\ job_session = job_row
    /\ job_pc = "fetch"
    /\ job_exc = None
    /\ job_raised = None
    /\ client_open = FALSE

JobIdle ==
    /\ job_type = None
    /\ api_key_configured = None
    /\ job_row = None
    /\ job_session = None
    /\ job_pc = "idle"
    /\ job_exc = None
    /\ job_raised = None
    /\ client_open = None

\* `if job is None: return`
JobMissing ==
    /\ job_pc = "fetch"
    /\ job_row = None
    /\ job_pc' = "done"
    /\ UNCHANGED <<job_type, api_key_configured, job_row, job_session, job_exc,
                   job_raised, client_open, agentVars, schemaVars, responseVars,
                   pdfVars, cardVars, persistVars, authVars, genVars, uploadVars, mapVars, ingestVars, loginVars>>

\* _process_ai_generation_job, lines 176-185
JobNotConfigured ==
    /\ job_pc = "fetch"
    /\ job_row # None
    /\ job_type = "ai_generation"
    /\ ~api_key_configured
    /\ job_session' = Some(SetStatus(job_session[1], "failed", FALSE, TRUE,
                                     Some("Gemini API is not configured.")))
    /\ job_row' = job_session'
    /\ job_pc' = "done"
    /\ UNCHANGED <<job_type, api_key_configured, job_exc, job_raised, client_open,
                   agentVars, schemaVars, responseVars, pdfVars, cardVars, persistVars, authVars, genVars, uploadVars, mapVars, ingestVars, loginVars>>

\* The job is marked IN_PROGRESS and committed; the AI processor then builds
\* its client (lines 84-89, 132-137, 187-222).
JobStart ==
    /\ job_pc = "fetch"
    /\ job_row # None
    /\ job_type = "ai_generation" => api_key_configured
    /\ job_session' = Some(SetStatus(job_session[1], "in_progress", TRUE, FALSE, None))
    /\ job_row' = job_session'
    /\ client_open' = (job_type = "ai_generation")
    /\ job_pc' = "service"
    /\ UNCHANGED <<job_type, api_key_configured, job_exc, job_raised,
                   agentVars, schemaVars, responseVars, pdfVars, cardVars, persistVars, authVars, genVars, uploadVars, mapVars, ingestVars, loginVars>>

\* The first statements of the try block: the service call (clone_study_sets,
\* export_study_sets, generate_from_pdfs) returns or raises.
JobServiceCall ==
    /\ job_pc = "service"
    /\ \/ job_pc' = "record" /\ UNCHANGED job_exc
       \/ \E exc \in Exceptions : job_exc' = Some(exc) /\ job_pc' = "except"
    /\ UNCHANGED <<job_type, api_key_configured, job_row, job_session, job_raised,
                   client_open, agentVars, schemaVars, responseVars, pdfVars, cardVars,
                   persistVars, authVars, genVars, uploadVars, mapVars, ingestVars, loginVars>>

\* set_result and set_status(COMPLETED) in the session, or an exception of
\* the database.
JobRecordResult ==
    /\ job_pc = "record"
    /\ \/ /\ job_session' = Some(SetStatus(SetResult(job_session[1]), "completed",
                                           FALSE, TRUE, None))
          /\ job_pc' = "commit"
          /\ UNCHANGED job_exc
       \/ \E exc \in Exceptions :
            /\ job_session' = Some(SetResult(job_session[1]))
            /\ job_exc' = Some(exc)
            /\ job_pc' = "except"
    /\ UNCHANGED <<job_type, api_key_configured, job_row, job_raised, client_open,
                   agentVars, schemaVars, responseVars, pdfVars, cardVars, persistVars, authVars, genVars, uploadVars, mapVars, ingestVars, loginVars>>

\* session.commit() of the try block.
JobCommit ==
    /\ job_pc = "commit"
    /\ \/ job_row' = job_session /\ job_pc' = "finally" /\ UNCHANGED job_exc
       \/ \E exc \in Exceptions :
            job_exc' = Some(exc) /\ job_pc' = "except" /\ UNCHANGED job_row
    /\ UNCHANGED <<job_type, api_key_configured, job_session, job_raised, client_open,
                   agentVars, schemaVars, responseVars, pdfVars, cardVars, persistVars, authVars, genVars, uploadVars, mapVars, ingestVars, loginVars>>

\* `except Exception as exc`: _mark_job_failed, then `raise`.
JobMarkFailed ==
    /\ job_pc = "except"
    /\ job_session' = Some(SetStatus(job_session[1], "failed", FALSE, TRUE,
                                     Some(FailureMessage(job_exc[1]))))
    /\ job_row' = job_session'
    /\ job_raised' = job_exc
    /\ job_pc' = "finally"
    /\ UNCHANGED <<job_type, api_key_configured, job_exc, client_open,
                   agentVars, schemaVars, responseVars, pdfVars, cardVars, persistVars, authVars, genVars, uploadVars, mapVars, ingestVars, loginVars>>

\* `finally: await client.aclose()` of the AI processor; the other
\* processors end here.
JobFinish ==
    /\ job_pc = "finally"
    /\ client_open' = FALSE
    /\ job_pc' = "done"
    /\ UNCHANGED <<job_type, api_key_configured, job_row, job_session, job_exc,
                   job_raised, agentVars, schemaVars, responseVars, pdfVars, cardVars,
                   persistVars, authVars, genVars, uploadVars, mapVars, ingestVars, loginVars>>

\* The task is delivered again with the same job id: the processor opens a
\* new session and reads the committed row (lines 65-67, 75-78).
JobRedeliver ==
    /\ job_pc = "done"
    /\ job_session' = job_row
    /\ job_exc' = None
    /\ job_raised' = None
    /\ job_pc' = "fetch"
    /\ UNCHANGED <<job_type, api_key_configured, job_row, client_open,
                   agentVars, schemaVars, responseVars, pdfVars, cardVars, persistVars,
                   authVars, genVars, uploadVars, mapVars, ingestVars, loginVars>>

JobNext ==
    \/ JobRedeliver
    \/ JobMissing
    \/ JobNotConfigured
    \/ JobStart
    \/ JobServiceCall
    \/ JobRecordResult
    \/ JobCommit
    \/ JobMarkFailed
    \/ JobFinish

------------------------------------------------------------------------------
(* Refresh-token rotation (services/auth.py, AuthService.refresh)           *)
(*                                                                          *)
(* Every call runs in a database session of its own.  A session reads the   *)
(* committed row; its UPDATE holds the row until the session commits or     *)
(* rolls back.  The calls present the same refresh token.                   *)

MaxSessions == 3    \* number of refresh calls presenting the token

Sessions == 1..MaxSessions

TokenRows == [revoked : BOOLEAN, expired : BOOLEAN]

\* `record is None or record.revoked`, then the expiry test (lines 91-98).
Refused(record) ==
    IF record = None THEN TRUE
    ELSE IF record[1].revoked THEN TRUE
    ELSE record[1].expired

\* RefreshTokenRepository.revoke: the UPDATE names the row by id alone.
Revoke(row) == [row EXCEPT !.revoked = TRUE]

AuthInit ==
    /\ user_exists \in BOOLEAN
    /\ rt_row \in {None} \cup {Some(r) : r \in TokenRows}
    /\ rt_lock = 0
    /\ auth_pc = [p \in Sessions |-> "start"]
    /\ auth_outcome = [p \in Sessions |-> None]
    /\ issued = {}

AuthIdle ==
    /\ user_exists = None
    /\ rt_row = None
    /\ rt_lock = None
    /\ auth_pc = None
    /\ auth_outcome = None
    /\ issued = None

\* get_by_hash finds no usable record: 401.
RefreshRefused ==
    \E p \in Sessions :
        /\ auth_pc[p] = "start"
        /\ Refused(rt_row)
        /\ auth_outcome' = [auth_outcome EXCEPT ![p] = Some("401")]
        /\ auth_pc' = [auth_pc EXCEPT ![p] = "done"]
        /\ UNCHANGED <<user_exists, rt_row, rt_lock, issued, agentVars, schemaVars,
                       responseVars, pdfVars, cardVars, persistVars, jobVars, genVars, uploadVars, mapVars, ingestVars, loginVars>>

\* get_by_hash returns a record that is neither revoked nor expired.
RefreshAdmitted ==
    \E p \in Sessions :
        /\ auth_pc[p] = "start"
        /\ ~Refused(rt_row)
        /\ auth_pc' = [auth_pc EXCEPT ![p] = "revoke"]
        /\ UNCHANGED <<user_exists, rt_row, rt_lock, auth_outcome, issued, agentVars,
                       schemaVars, responseVars, pdfVars, cardVars, persistVars, jobVars, genVars, uploadVars, mapVars, ingestVars, loginVars>>

\* `await self._refresh_tokens.revoke(record.id)`: waits for the row.
RefreshRevoke ==
    \E p \in Sessions :
        /\ auth_pc[p] = "revoke"
        /\ rt_lock = 0
        /\ rt_lock' = p
        /\ auth_pc' = [auth_pc EXCEPT ![p] = "issue"]
        /\ UNCHANGED <<user_exists, rt_row, auth_outcome, issued, agentVars, schemaVars,
                       responseVars, pdfVars, cardVars, persistVars, jobVars, genVars, uploadVars, mapVars, ingestVars, loginVars>>

\* _issue_tokens creates the new refresh token in the session.
RefreshIssueTokens ==
    \E p \in Sessions :
        /\ auth_pc[p] = "issue"
        /\ user_exists
        /\ auth_pc' = [auth_pc EXCEPT ![p] = "commit"]
        /\ UNCHANGED <<user_exists, rt_row, rt_lock, auth_outcome, issued, agentVars,
                       schemaVars, responseVars, pdfVars, cardVars, persistVars, jobVars, genVars, uploadVars, mapVars, ingestVars, loginVars>>

\* _issue_tokens finds no user: 401, the session ends without a commit.
RefreshInvalidUser ==
    \E p \in Sessions :
        /\ auth_pc[p] = "issue"
        /\ ~user_exists
        /\ rt_lock' = 0
        /\ auth_outcome' = [auth_outcome EXCEPT ![p] = Some("401")]
        /\ auth_pc' = [auth_pc EXCEPT ![p] = "done"]
        /\ UNCHANGED <<user_exists, rt_row, issued, agentVars, schemaVars, responseVars,
                       pdfVars, cardVars, persistVars, jobVars, genVars, uploadVars, mapVars, ingestVars, loginVars>>

\* `await self._session.commit()` and `return tokens`.
RefreshCommit ==
    \E p \in Sessions :
        /\ auth_pc[p] = "commit"
        /\ rt_row' = Some(Revoke(rt_row[1]))
        /\ issued' = issued \cup {p}
        /\ rt_lock' = 0
        /\ auth_outcome' = [auth_outcome EXCEPT ![p] = Some("tokens")]
        /\ auth_pc' = [auth_pc EXCEPT ![p] = "done"]
        /\ UNCHANGED <<user_exists, agentVars, schemaVars, responseVars, pdfVars, cardVars,
                       persistVars, jobVars, genVars, uploadVars, mapVars, ingestVars, loginVars>>

AuthNext ==
    \/ RefreshRefused
    \/ RefreshAdmitted
    \/ RefreshRevoke
    \/ RefreshIssueTokens
    \/ RefreshInvalidUser
    \/ RefreshCommit

------------------------------------------------------------------------------
(* AiStudyCardService.generate_from_pdfs                                    *)
(*                                                                          *)
(* The steps of one call: the PDF context, the existing questions, the      *)
(* agent, the mapping of each card, the retention note, import_card_batch.  *)

GenInit ==
    /\ gen_request \in {Some(q) : q \in PersistRequests}
    /\ gen_pc = "build_context"
    /\ gen_result = None
    /\ card_payloads = <<>>
    /\ import_calls = <<>>
    /\ stored = <<>>
    /\ gen_raised = None

GenIdle ==
    /\ gen_request = None
    /\ gen_pc = "idle"
    /\ gen_result = None
    /\ card_payloads = None
    /\ import_calls = None
    /\ stored = None
    /\ gen_raised = None

\* Line 81: build_context returns or raises (PDFIngestionError).
GenBuildContext ==
    /\ gen_pc = "build_context"
    /\ \/ gen_pc' = "load_existing" /\ UNCHANGED gen_raised
       \/ gen_pc' = "raised" /\ gen_raised' = Some("PDFIngestionError")
    /\ UNCHANGED <<gen_request, gen_result, card_payloads, import_calls, stored,
                   agentVars, schemaVars, responseVars, pdfVars, cardVars,
                   persistVars, jobVars, authVars, uploadVars, mapVars, ingestVars, loginVars>>

\* Line 90: _load_existing_questions returns or the repository raises.
GenLoadExisting ==
    /\ gen_pc = "load_existing"
    /\ \/ gen_pc' = "agent" /\ UNCHANGED gen_raised
       \/ gen_pc' = "raised" /\ gen_raised' = Some("SQLAlchemyError")
    /\ UNCHANGED <<gen_request, gen_result, card_payloads, import_calls, stored,
                   agentVars, schemaVars, responseVars, pdfVars, cardVars,
                   persistVars, jobVars, authVars, uploadVars, mapVars, ingestVars, loginVars>>

\* Lines 95-100: the agent returns an AgentResult or raises.
GenAgent ==
    /\ gen_pc = "agent"
    /\ \/ \E result \in AgentResults :
            /\ gen_result' = Some(result)
            /\ gen_pc' = "map"
            /\ UNCHANGED gen_raised
       \/ /\ gen_pc' = "raised"
          /\ gen_raised' = Some("GeminiClientError")
          /\ UNCHANGED gen_result
    /\ UNCHANGED <<gen_request, card_payloads, import_calls, stored,
                   agentVars, schemaVars, responseVars, pdfVars, cardVars,
                   persistVars, jobVars, authVars, uploadVars, mapVars, ingestVars, loginVars>>

\* _persist_generated_cards, lines 154-162: one turn of the loop over the
\* generated cards.
GenMapCard ==
    /\ gen_pc = "map"
    /\ Len(card_payloads) < Len(gen_result[1].cards)
    /\ LET card == gen_result[1].cards[Len(card_payloads) + 1]
           mapped == MapCardToData(card) IN
       IF mapped.raised
       THEN /\ gen_pc' = "raised"
            /\ gen_raised' = Some("ValueError")
            /\ UNCHANGED card_payloads
       ELSE /\ card_payloads' = Append(card_payloads,
                                       StudyCardCreate(card.card_type, mapped.data))
            /\ UNCHANGED <<gen_pc, gen_raised>>
    /\ UNCHANGED <<gen_request, gen_result, import_calls, stored,
                   agentVars, schemaVars, responseVars, pdfVars, cardVars,
                   persistVars, jobVars, authVars, uploadVars, mapVars, ingestVars, loginVars>>

\* _persist_generated_cards, lines 163-169: the retention note, when due.
GenRetentionNote ==
    /\ gen_pc = "map"
    /\ Len(card_payloads) = Len(gen_result[1].cards)
    /\ IF IncludeRetentionNote(gen_result[1], gen_request[1])
       THEN LET note == BuildRetentionNote(gen_result[1].retention_aid[1]) IN
            IF note.raised
            THEN /\ gen_pc' = "raised"
                 /\ gen_raised' = Some("ValueError")
                 /\ UNCHANGED card_payloads
            ELSE /\ card_payloads' = Append(card_payloads,
                                            StudyCardCreate("note", note.data))
                 /\ gen_pc' = "import"
                 /\ UNCHANGED gen_raised
       ELSE /\ gen_pc' = "import"
            /\ UNCHANGED <<card_payloads, gen_raised>>
    /\ UNCHANGED <<gen_request, gen_result, import_calls, stored,
                   agentVars, schemaVars, responseVars, pdfVars, cardVars,
                   persistVars, jobVars, authVars, uploadVars, mapVars, ingestVars, loginVars>>

\* A mutant of ImportCardBatch: the cards are stored without the last one.
ImportCardBatchDropsLast(committed, batch) ==
    committed \o SubSeq(batch, 1, Len(batch) - 1)

\* StudyCardService.import_card_batch: import_cards adds every card of the
\* payload to the session, one commit stores them.
ImportCardBatch(committed, batch) == committed \o batch

\* _persist_generated_cards, lines 171-173, and the return of
\* generate_from_pdfs.
GenImport ==
    /\ gen_pc = "import"
    /\ import_calls' = Append(import_calls, card_payloads)
    /\ stored' = ImportCardBatch(stored, card_payloads)
    /\ gen_pc' = "returned"
    /\ UNCHANGED <<gen_request, gen_result, card_payloads, gen_raised,
                   agentVars, schemaVars, responseVars, pdfVars, cardVars,
                   persistVars, jobVars, authVars, uploadVars, mapVars, ingestVars, loginVars>>

GenNext ==
    \/ GenBuildContext
    \/ GenLoadExisting
    \/ GenAgent
    \/ GenMapCard
    \/ GenRetentionNote
    \/ GenImport

------------------------------------------------------------------------------
(* GeminiGenerativeClient.upload_file (services/ai/clients.py)              *)
(*                                                                          *)
(* A response is its status code with, for the start request, the value of  *)
(* the x-goog-upload-url header (None when absent) and, for the upload, the *)
(* JSON body: `file` is None when the key is absent or null, else the       *)
(* descriptor [has_uri, uri].                                               *)

StatusCodes == {200, 201, 302, 404, 500}

\* Response.raise_for_status: every status outside 2xx raises.
RaiseForStatus(status) == ~(200 <= status /\ status < 300)

UploadReturned(uri) == [ok |-> TRUE, file_uri |-> uri, message |-> ""]
UploadRaised(message) == [ok |-> FALSE, file_uri |-> "", message |-> message]

StartResponses ==
    [status : StatusCodes, upload_url : {None, Some(""), Some("https://upload/1")}]

FileDescriptors ==
    {None, Some([empty |-> TRUE, has_uri |-> FALSE, uri |-> ""]),
           Some([empty |-> FALSE, has_uri |-> FALSE, uri |-> ""]),
           Some([empty |-> FALSE, has_uri |-> TRUE, uri |-> "files/pdf"])}

UploadResponses == [status : StatusCodes, file : FileDescriptors]

\* A mutant of AfterStartResponse: the header is read without the status.
AfterStartResponseAnyStatus(response) ==
    IF response.upload_url = None \/ response.upload_url = Some("")
    THEN UploadRaised("Gemini did not provide an upload URL.")
    ELSE UploadReturned(response.upload_url[1])

\* Lines 313-333: the status of the start response, then its header; the
\* upload URL on success.
AfterStartResponse(response) ==
    IF RaiseForStatus(response.status)
    THEN UploadRaised("Gemini upload initialisation failed")
    ELSE IF response.upload_url = None \/ response.upload_url = Some("")
    THEN UploadRaised("Gemini did not provide an upload URL.")
    ELSE UploadReturned(response.upload_url[1])

\* Lines 343-366: the status of the upload response, then its body.
AfterUploadResponse(response) ==
    IF RaiseForStatus(response.status)
    THEN UploadRaised("Gemini upload failed")
    ELSE IF response.file = None THEN UploadRaised("Gemini upload response missing file URI.")
    ELSE IF response.file[1].empty \/ ~response.file[1].has_uri
    THEN UploadRaised("Gemini upload response missing file URI.")
    ELSE UploadReturned(response.file[1].uri)

UploadInit ==
    /\ up_pc = "start"
    /\ up_display_name \in {None, Some(""), Some("a.pdf")}
    /\ up_requests = <<>>
    /\ up_responses = <<>>
    /\ up_upload_url = None
    /\ up_result = None

UploadIdle ==
    /\ up_pc = "idle"
    /\ up_display_name = None
    /\ up_requests = None
    /\ up_responses = None
    /\ up_upload_url = None
    /\ up_result = None

\* Line 312: the start request is posted.
PostStart ==
    /\ up_pc = "start"
    /\ up_requests' = Append(up_requests,
                             [command |-> "start", url |-> "upload/v1beta/files",
                              display_name |-> DisplayName(up_display_name)])
    /\ up_pc' = "await_start"
    /\ UNCHANGED <<up_display_name, up_responses, up_upload_url, up_result, agentVars, schemaVars, responseVars,
                   pdfVars, cardVars, persistVars, jobVars, authVars, genVars, mapVars, ingestVars, loginVars>>

\* Lines 313-333: the start response arrives.
ReceiveStartResponse ==
    /\ up_pc = "await_start"
    /\ \E response \in StartResponses :
         LET after == AfterStartResponse(response) IN
         /\ up_responses' = Append(up_responses,
                                   [status |-> response.status,
                                    upload_url |-> response.upload_url,
                                    file |-> None])
         /\ IF after.ok
            THEN /\ up_upload_url' = Some(after.file_uri)
                 /\ up_pc' = "upload"
                 /\ UNCHANGED up_result
            ELSE /\ up_result' = Some(after)
                 /\ up_pc' = "done"
                 /\ UNCHANGED up_upload_url
    /\ UNCHANGED <<up_display_name, up_requests, agentVars, schemaVars, responseVars,
                   pdfVars, cardVars, persistVars, jobVars, authVars, genVars, mapVars, ingestVars, loginVars>>

\* Lines 335-342: the bytes are posted to the upload URL.
PostBytes ==
    /\ up_pc = "upload"
    /\ up_requests' = Append(up_requests,
                             [command |-> "upload, finalize", url |-> up_upload_url[1],
                              display_name |-> ""])
    /\ up_pc' = "await_upload"
    /\ UNCHANGED <<up_display_name, up_responses, up_upload_url, up_result, agentVars, schemaVars, responseVars,
                   pdfVars, cardVars, persistVars, jobVars, authVars, genVars, mapVars, ingestVars, loginVars>>

\* Lines 343-366: the upload response arrives.
ReceiveUploadResponse ==
    /\ up_pc = "await_upload"
    /\ \E response \in UploadResponses :
         /\ up_responses' = Append(up_responses,
                                   [status |-> response.status,
                                    upload_url |-> None,
                                    file |-> response.file])
         /\ up_result' = Some(AfterUploadResponse(response))
    /\ up_pc' = "done"
    /\ UNCHANGED <<up_display_name, up_requests, up_upload_url, agentVars, schemaVars, responseVars,
                   pdfVars, cardVars, persistVars, jobVars, authVars, genVars, mapVars, ingestVars, loginVars>>

UploadNext ==
    \/ PostStart
    \/ ReceiveStartResponse
    \/ PostBytes
    \/ ReceiveUploadResponse

------------------------------------------------------------------------------
(* AiStudyCardService._map_card_to_data on one card                         *)

\* A line longer than the limit of _extract_heading.
LongLine == [i \in 1..(LineLimit + 1) |-> IF i = LineLimit + 1 THEN "y" ELSE "x"]

\* The cards explored: every card type with the options and answers that
\* make each construction succeed and fail, and notes whose markdown and
\* glossary title exercise every way a title is found.
MappableCards ==
    [card_type : {"mcq_single", "mcq_multi", "written", "true_false", "cloze", "emq",
                  "flashcard"},
     primary : {<<"r">>},
     glossary_title : {None},
     options : {<<>>, <<"A", "B">>},
     correct_answers : {<<>>, <<"A">>, <<"Z">>, <<"A", "B">>, <<"no">>, <<"1", "x">>}]
    \cup
    [card_type : {"note"},
     primary : {<<>>, <<" ", "\n">>, <<"m">>, <<"#", " ", "T", "\n", "m">>,
                <<"#", " ", "\n", "m">>, <<"i", "\n", "#", "H">>,
                <<"\n", " ", "b", " ", "\n", "c">>, LongLine},
     glossary_title : {None, Some(<<"G">>), Some(<<" ">>), Some(<<" ", "G", " ">>)},
     options : {<<>>},
     correct_answers : {<<>>}]

MapInit ==
    /\ map_card \in {Some(c) : c \in MappableCards}
    /\ map_result = None

MapIdle == map_card = None /\ map_result = None

\* _map_card_to_data(card, generator)
MapCard ==
    /\ map_card # None
    /\ map_result = None
    /\ map_result' = Some(MapCardToData(map_card[1]))
    /\ UNCHANGED <<map_card, agentVars, schemaVars, responseVars, pdfVars, cardVars,
                   persistVars, jobVars, authVars, genVars, uploadVars, ingestVars, loginVars>>

MapNext == MapCard

------------------------------------------------------------------------------
(* DocumentIngestionService._extract: the text segments of a document       *)

MaxPages == 2

\* What page.get_text("text") returns for the pages explored: no text, only
\* whitespace, words separated by runs of whitespace, a long word.
PageTexts ==
    {<<>>, <<" ">>, <<"a">>, <<"a", " ", "b">>, <<"a", "b", " ", "\n", "c", "d">>,
     <<" ", "a", "\n", "b", " ">>, <<"a", "b", "c", "d", "e">>}

TextChunkSizes == {1, 2, 3}
MaxTextLengths == {1, 2, 3, 4, 7, 20}

\* " ".join(content.split()): every run of whitespace becomes one space and
\* the ends carry none.
Sanitize(content) ==
    LET s == Strip(content)
        kept == {i \in 1..Len(s) : i = 1 \/ s[i] \notin Whitespace \/ s[i - 1] \notin Whitespace}
        nth(k) == CHOOSE i \in kept : Cardinality({j \in kept : j < i}) = k - 1 IN
    [k \in 1..Cardinality(kept) |-> IF s[nth(k)] \in Whitespace THEN " " ELSE s[nth(k)]]

PDFTextSegment(page_index, content) == [page_index |-> page_index, content |-> content]

\* _chunk(page_index, content)
Chunk(page_index, content, size) ==
    LET sanitized == Sanitize(content)
        count == (Len(sanitized) + size - 1) \div size
        segment(k) == Strip(SubSeq(sanitized, (k - 1) * size + 1,
                                   Min(k * size, Len(sanitized)))) IN
    SelectSeq([k \in 1..count |-> PDFTextSegment(page_index, segment(k))],
              LAMBDA seg : seg.content # <<>>)

\* The loop over the pages of _extract: the chunks of every page with text.
RECURSIVE ChunkPages(_, _, _)
ChunkPages(pages, page_index, size) ==
    IF page_index > Len(pages) THEN <<>>
    ELSE LET text == Strip(pages[page_index]) IN
         (IF text # <<>> THEN Chunk(page_index, text, size) ELSE <<>>)
         \o ChunkPages(pages, page_index + 1, size)

\* The total length of the contents of segments.
RECURSIVE TotalLength(_)
TotalLength(segments) ==
    IF segments = <<>> THEN 0 ELSE Len(Head(segments).content) + TotalLength(Tail(segments))

RECURSIVE TruncateLoop(_, _, _, _)
TruncateLoop(segments, total, output, max_text_length) ==
    IF segments = <<>> \/ total >= max_text_length THEN output
    ELSE LET segment == Head(segments)
             remaining == max_text_length - total
             content == IF Len(segment.content) <= remaining
                        THEN segment.content
                        ELSE SubSeq(segment.content, 1, remaining) IN
         TruncateLoop(Tail(segments), total + Len(content),
                      Append(output, PDFTextSegment(segment.page_index, content)),
                      max_text_length)

\* A mutant of Truncate: a segment that does not fit is dropped whole.
TruncateDropsOverflow(segments, max_text_length) ==
    LET fits(n) == TotalLength(SubSeq(segments, 1, n)) <= max_text_length
        n == CHOOSE k \in 0..Len(segments) :
                 fits(k) /\ (k = Len(segments) \/ ~fits(k + 1)) IN
    SubSeq(segments, 1, n)

\* _truncate(segments)
Truncate(segments, max_text_length) == TruncateLoop(segments, 0, <<>>, max_text_length)

IngestInit ==
    /\ ing_config \in {Some(c) : c \in [text_chunk_size : TextChunkSizes,
                                        max_text_length : MaxTextLengths]}
    /\ ing_pages \in {Some(p) : p \in UNION {[1..n -> PageTexts] : n \in 0..MaxPages}}
    /\ text_segments = None
    /\ ing_result = None

IngestIdle ==
    ing_config = None /\ ing_pages = None /\ text_segments = None /\ ing_result = None

\* _extract(payload, filename), its text segments
Extract ==
    /\ ing_pages # None
    /\ ing_result = None
    /\ LET segments == ChunkPages(ing_pages[1], 1, ing_config[1].text_chunk_size) IN
       /\ text_segments' = Some(segments)
       /\ ing_result' = Some(Truncate(segments, ing_config[1].max_text_length))
    /\ UNCHANGED <<ing_config, ing_pages, agentVars, schemaVars, responseVars, pdfVars,
                   cardVars, persistVars, jobVars, authVars, genVars, uploadVars,
                   mapVars, loginVars>>

IngestNext == Extract

------------------------------------------------------------------------------
(* AuthService.authenticate and AuthService.refresh for one registered user *)
(*                                                                          *)
(* The calls run one after the other.  A row of refresh_tokens is           *)
(* [revoked, expired]; `expired` stands for expires_at <= now.              *)

MaxTokens == 3      \* most refresh tokens created for the user

\* RefreshTokenRepository.create: a new row, not revoked, not yet expired.
NewToken == [revoked |-> FALSE, expired |-> FALSE]

LoginInit ==
    /\ is_active = Some(TRUE)
    /\ refresh_tokens = <<>>
    /\ login_outcome = None

LoginIdle == is_active = None /\ refresh_tokens = None /\ login_outcome = None

\* authenticate, lines 70-79: unknown email or wrong password is 401, a
\* disabled user is 403.
AuthenticateRejected ==
    /\ is_active # None
    /\ \E password_ok \in BOOLEAN :
         /\ ~(password_ok /\ is_active[1])
         /\ login_outcome' = Some(IF ~password_ok THEN "401" ELSE "403")
    /\ UNCHANGED <<is_active, refresh_tokens, agentVars, schemaVars, responseVars, pdfVars, cardVars,
                   persistVars, jobVars, authVars, genVars, uploadVars, mapVars,
                   ingestVars>>

\* authenticate, lines 81-84: _issue_tokens creates a refresh token.
AuthenticateIssues ==
    /\ is_active # None
    /\ is_active[1]
    /\ Len(refresh_tokens) < MaxTokens
    /\ refresh_tokens' = Append(refresh_tokens, NewToken)
    /\ login_outcome' = Some("tokens")
    /\ UNCHANGED <<is_active, agentVars, schemaVars, responseVars, pdfVars, cardVars,
                   persistVars, jobVars, authVars, genVars, uploadVars, mapVars,
                   ingestVars>>

\* refresh, lines 90-98: the presented token is unknown, revoked or expired.
RefreshRejected ==
    /\ is_active # None
    /\ \/ refresh_tokens = <<>>
       \/ \E i \in DOMAIN refresh_tokens : Refused(Some(refresh_tokens[i]))
    /\ login_outcome' = Some("401")
    /\ UNCHANGED <<is_active, refresh_tokens, agentVars, schemaVars, responseVars, pdfVars, cardVars,
                   persistVars, jobVars, authVars, genVars, uploadVars, mapVars,
                   ingestVars>>

\* refresh, lines 100-103: the presented token is revoked and _issue_tokens,
\* which finds the user by id, creates a new one.
RefreshRotates ==
    /\ is_active # None
    /\ Len(refresh_tokens) < MaxTokens
    /\ \E i \in DOMAIN refresh_tokens :
         /\ ~Refused(Some(refresh_tokens[i]))
         /\ refresh_tokens' = Append([refresh_tokens EXCEPT ![i] = Revoke(@)], NewToken)
    /\ login_outcome' = Some("tokens")
    /\ UNCHANGED <<is_active, agentVars, schemaVars, responseVars, pdfVars, cardVars,
                   persistVars, jobVars, authVars, genVars, uploadVars, mapVars,
                   ingestVars>>

\* The user is disabled: users.is_active becomes false.
DisableUser ==
    /\ is_active = Some(TRUE)
    /\ is_active' = Some(FALSE)
    /\ login_outcome' = None
    /\ UNCHANGED <<refresh_tokens, agentVars, schemaVars, responseVars, pdfVars, cardVars,
                   persistVars, jobVars, authVars, genVars, uploadVars, mapVars,
                   ingestVars>>

\* Time passes the expires_at of a token.
TokenExpires ==
    /\ is_active # None
    /\ \E i \in DOMAIN refresh_tokens :
         /\ ~refresh_tokens[i].expired
         /\ refresh_tokens' = [refresh_tokens EXCEPT ![i].expired = TRUE]
    /\ UNCHANGED <<is_active, login_outcome, agentVars, schemaVars, responseVars, pdfVars, cardVars,
                   persistVars, jobVars, authVars, genVars, uploadVars, mapVars,
                   ingestVars>>

LoginNext ==
    \/ AuthenticateRejected
    \/ AuthenticateIssues
    \/ RefreshRejected
    \/ RefreshRotates
    \/ DisableUser
    \/ TokenExpires

------------------------------------------------------------------------------
SchemaIdle == schema = None /\ resolved = None
ResponseIdle == http_response = None /\ json_result = None

RestIdle == PdfIdle /\ CardIdle /\ PersistIdle /\ JobIdle /\ AuthIdle /\ GenIdle /\ UploadIdle /\ MapIdle /\ IngestIdle /\ LoginIdle

Init == AgentInit /\ SchemaIdle /\ ResponseIdle /\ RestIdle
Next == AgentNext
Spec == Init /\ [][Next]_vars
\* generate is one coroutine: once called it runs to its return or raise, and
\* the client answers every call (with a payload or an error).
FairSpec == Spec /\ WF_vars(Next)

SchemaSpecInit == AgentIdle /\ SchemaInit /\ ResponseIdle /\ RestIdle
SchemaNext == ResolveResponseSchema
SpecSchema == SchemaSpecInit /\ [][SchemaNext]_vars

ResponseSpecInit == AgentIdle /\ SchemaIdle /\ ResponseInit /\ RestIdle
ResponseNext == ReceiveHttpResponse
SpecResponse == ResponseSpecInit /\ [][ResponseNext]_vars

CoreIdle == AgentIdle /\ SchemaIdle /\ ResponseIdle

PdfSpecInit == CoreIdle /\ PdfInit /\ CardIdle /\ PersistIdle /\ JobIdle /\ AuthIdle /\ GenIdle /\ UploadIdle /\ MapIdle /\ IngestIdle /\ LoginIdle
SpecPdf == PdfSpecInit /\ [][PdfNext]_vars

CardSpecInit == CoreIdle /\ PdfIdle /\ CardInit /\ PersistIdle /\ JobIdle /\ AuthIdle /\ GenIdle /\ UploadIdle /\ MapIdle /\ IngestIdle /\ LoginIdle
SpecCards == CardSpecInit /\ [][CardNext]_vars

PersistSpecInit == CoreIdle /\ PdfIdle /\ CardIdle /\ PersistInit /\ JobIdle /\ AuthIdle /\ GenIdle /\ UploadIdle /\ MapIdle /\ IngestIdle /\ LoginIdle
SpecPersist == PersistSpecInit /\ [][PersistNext]_vars

JobSpecInit == CoreIdle /\ PdfIdle /\ CardIdle /\ PersistIdle /\ JobInit /\ AuthIdle /\ GenIdle /\ UploadIdle /\ MapIdle /\ IngestIdle /\ LoginIdle
SpecJobs == JobSpecInit /\ [][JobNext]_vars

AuthSpecInit ==
    CoreIdle /\ PdfIdle /\ CardIdle /\ PersistIdle /\ JobIdle /\ AuthInit /\ GenIdle /\ UploadIdle /\ MapIdle /\ IngestIdle /\ LoginIdle
SpecAuth == AuthSpecInit /\ [][AuthNext]_vars

GenSpecInit ==
    /\ CoreIdle /\ PdfIdle /\ CardIdle /\ PersistIdle /\ JobIdle /\ AuthIdle
    /\ GenInit /\ UploadIdle /\ MapIdle /\ IngestIdle /\ LoginIdle
SpecGenerate == GenSpecInit /\ [][GenNext]_vars

UploadSpecInit ==
    /\ CoreIdle /\ PdfIdle /\ CardIdle /\ PersistIdle /\ JobIdle /\ AuthIdle
    /\ GenIdle /\ UploadInit /\ MapIdle /\ IngestIdle /\ LoginIdle
SpecUpload == UploadSpecInit /\ [][UploadNext]_vars

MapSpecInit ==
    /\ CoreIdle /\ PdfIdle /\ CardIdle /\ PersistIdle /\ JobIdle /\ AuthIdle
    /\ GenIdle /\ UploadIdle /\ MapInit /\ IngestIdle /\ LoginIdle
SpecMap == MapSpecInit /\ [][MapNext]_vars

IngestSpecInit ==
    /\ CoreIdle /\ PdfIdle /\ CardIdle /\ PersistIdle /\ JobIdle /\ AuthIdle
    /\ GenIdle /\ UploadIdle /\ MapIdle /\ IngestInit /\ LoginIdle
SpecIngest == IngestSpecInit /\ [][IngestNext]_vars

LoginSpecInit ==
    /\ CoreIdle /\ PdfIdle /\ CardIdle /\ PersistIdle /\ JobIdle /\ AuthIdle
    /\ GenIdle /\ UploadIdle /\ MapIdle /\ IngestIdle /\ LoginInit
SpecLogin == LoginSpecInit /\ [][LoginNext]_vars

------------------------------------------------------------------------------
(* Properties of StudyCardGenerationAgent.generate                          *)

Done == pc \in {"returned", "raised"}

\* The target the specification states: min(request.target_card_count or
\* default, config.max_card_count).
ClaimedTarget ==
    Min(IF request.target_card_count # None
        THEN request.target_card_count[1] ELSE config.default_card_count,
        config.max_card_count)

\* The cards of the valid responses, in the order the client returned them.
RECURSIVE AllCards(_)
AllCards(rs) ==
    IF rs = <<>> THEN <<>>
    ELSE (IF rs[1].kind = "valid" THEN rs[1].cards ELSE <<>>) \o AllCards(Tail(rs))

\* Number of cards the client returned in valid responses before its k-th call.
AcceptedBefore(k) == SumLen(SubSeq(responses, 1, k - 1))

\* The error of the latest failed attempt, or the generic failure.
RECURSIVE LastRecorded(_)
LastRecorded(rs) ==
    IF rs = <<>> THEN GenericFailure
    ELSE IF rs[Len(rs)].kind = "error" THEN rs[Len(rs)].error
    ELSE LastRecorded(SubSeq(rs, 1, Len(rs) - 1))

\* C1: whenever generate returns a result, the number of cards in it is at
\* most min(request.target_card_count or config.default_card_count,
\* config.max_card_count).
C1_CapNeverExceeded ==
    pc = "returned" => Len(outcome[1].cards) <= ClaimedTarget

\* C1 witness: a result whose accepted cards exceeded a target that the
\* configured maximum capped.
C1_Witness ==
    /\ pc = "returned"
    /\ request.target_card_count # None
    /\ request.target_card_count[1] > config.max_card_count
    /\ Len(AllCards(responses)) > ClaimedTarget

\* C2: when all config.max_attempts attempts are used and fewer cards than
\* the target were accepted, generate raises and returns nothing: the error of
\* the latest failed attempt when there is one, else the generic failure.
C2_ExhaustionRaisesLastError ==
    (Done /\ Len(calls) = config.max_attempts /\ SumLen(responses) < ClaimedTarget)
        => /\ pc = "raised"
           /\ outcome = Some([raised |-> LastRecorded(responses)])

\* C2 witness: an exhausted run with two failed attempts and a batch accepted
\* after them.
C2_Witness ==
    /\ pc = "raised"
    /\ Len(responses) >= 3
    /\ responses[1].kind = "error"
    /\ responses[2].kind = "error"
    /\ responses[Len(responses)].kind = "valid"
    /\ generated_cards # <<>>
    /\ outcome[1].raised = responses[2].error

\* C3: generate makes at most config.max_attempts calls of generate_json,
\* never two at a time, and every call of generate ends (returns or raises)
\* whatever the client answers.
C3_BoundedSequentialAttempts ==
    /\ [](Len(calls) <= config.max_attempts /\ inflight <= 1)
    /\ <>Done

\* C3 witness: a finished run that used every attempt and saw an error, an
\* empty batch and a partial batch.
C3_Witness ==
    /\ Done
    /\ Len(calls) = config.max_attempts
    /\ \E i, j, k \in 1..Len(responses) :
         /\ responses[i].kind = "error"
         /\ responses[j].kind = "valid" /\ responses[j].cards = <<>>
         /\ responses[k].kind = "valid" /\ responses[k].cards # <<>>

\* C4: no generate_json call is made once the cards accepted so far reach the
\* target; a valid full batch on the first attempt means exactly one call.
C4_NoCallOnceTargetReached ==
    /\ \A k \in 1..Len(calls) : ClaimedTarget - AcceptedBefore(k) > 0
    /\ (Done /\ responses # <<>> /\ responses[1].kind = "valid"
        /\ Len(responses[1].cards) >= ClaimedTarget)
           => (Len(calls) = 1 /\ pc = "returned")

\* C4 witness: a full first batch with attempts to spare.
C4_Witness ==
    /\ pc = "returned"
    /\ config.max_attempts > 1
    /\ Len(calls) = 1
    /\ Len(responses[1].cards) >= ClaimedTarget

\* C5: a ClientError or validation failure leaves the accepted cards as they
\* were, uses up its attempt, and the next call's instructions carry feedback
\* with "could not be processed"; an error followed by a valid full batch is
\* two calls and a result.
C5_ErrorRecoveredLocally ==
    /\ \A k \in 1..Len(responses) :
         responses[k].kind = "error" =>
           /\ (k = Len(responses) /\ pc = "loop") =>
                 /\ generated_cards = AllCards(SubSeq(responses, 1, k - 1))
                 /\ attempt = k + 1
           /\ Len(calls) > k =>
                 /\ calls[k + 1].instructions.count = calls[k].instructions.count
                 /\ calls[k + 1].instructions.previous_feedback # None
                 /\ calls[k + 1].instructions.previous_feedback[1].phrase
                        = "could not be processed"
    /\ (Done /\ Len(responses) >= 2 /\ responses[1].kind = "error"
        /\ responses[2].kind = "valid" /\ Len(responses[2].cards) >= ClaimedTarget)
           => (Len(calls) = 2 /\ pc = "returned")

\* C5 witness: a failed first attempt, then a valid full batch, and a result.
C5_Witness ==
    /\ pc = "returned"
    /\ Len(calls) = 2
    /\ responses[1].kind = "error"
    /\ calls[2].instructions.previous_feedback[1].phrase = "could not be processed"

\* C6: after a valid non-empty batch that leaves r = target - (all cards
\* accepted so far) > 0, the next call asks for exactly r cards and carries
\* feedback with "additional distinct card" and that same r.
C6_NextCallAsksForRemaining ==
    \A k \in 1..Len(responses) :
        LET r == ClaimedTarget - SumLen(SubSeq(responses, 1, k)) IN
        (responses[k].kind = "valid" /\ responses[k].cards # <<>> /\ r > 0
         /\ Len(calls) > k)
           => /\ calls[k + 1].instructions.count = r
              /\ calls[k + 1].instructions.previous_feedback # None
              /\ calls[k + 1].instructions.previous_feedback[1].phrase
                     = "additional distinct card"
              /\ calls[k + 1].instructions.previous_feedback[1].required = r

\* C6 witness: a third call after two partial batches, whose count differs
\* from what the second batch alone would leave.
C6_Witness ==
    /\ Len(calls) >= 3
    /\ responses[1].kind = "valid" /\ responses[1].cards # <<>>
    /\ responses[2].kind = "valid" /\ responses[2].cards # <<>>
    /\ calls[3].instructions.count = ClaimedTarget - SumLen(SubSeq(responses, 1, 2))
    /\ calls[3].instructions.count # ClaimedTarget - Len(responses[2].cards)

\* C7: the result's model and temperature are the request's overrides when
\* the request supplies them (any temperature from 0.0 to 2.0) and the
\* configured defaults otherwise, and every call of the run uses them.
C7_OverridesApplied ==
    LET want_model == IF request.model # None
                      THEN request.model[1] ELSE config.default_model
        want_temperature == IF request.temperature # None
                            THEN request.temperature[1]
                            ELSE config.default_temperature
    IN
    pc = "returned" =>
        /\ outcome[1].model_used = want_model
        /\ outcome[1].temperature_applied = want_temperature
        /\ \A k \in 1..Len(calls) :
             /\ calls[k].model = want_model
             /\ calls[k].temperature = want_temperature

------------------------------------------------------------------------------
(* Properties of _resolve_schema                                            *)

\* A key occurs somewhere in a JSON value.
RECURSIVE ContainsKey(_, _)
ContainsKey(node, key) ==
    /\ node.t \in {"obj", "arr"}
    /\ \/ node.t = "obj" /\ HasKey(node, key)
       \/ \E i \in 1..Len(node.items) : ContainsKey(node.items[i], key)

\* The values held by the $ref keys of a JSON value, at any depth.
RECURSIVE RefValues(_)
RefValues(node) ==
    IF node.t \notin {"obj", "arr"} THEN {}
    ELSE (IF node.t = "obj" /\ HasKey(node, "$ref") THEN {Get(node, "$ref")} ELSE {})
         \cup UNION {RefValues(node.items[i]) : i \in 1..Len(node.items)}

\* The schema's own definitions: its top-level $defs when that is an object.
Definitions(sch) ==
    IF HasKey(sch, "$defs") /\ Get(sch, "$defs").t = "obj"
    THEN Get(sch, "$defs") ELSE Obj(<<>>, <<>>)

\* `out` is `src` with every $ref replaced by the resolved content of the
\* definition it names and every $defs removed.
RECURSIVE Inlined(_, _, _, _)
Inlined(src, out, defs, trail) ==
    IF src.t = "obj" /\ HasKey(src, "$ref") THEN
        LET ref_value == Get(src, "$ref") IN
        /\ ref_value.t = "str"
        /\ StartsWithDefs(ref_value.str)
        /\ HasKey(defs, RefKey(ref_value.str))
        /\ \A i \in 1..Len(trail) : trail[i] # ref_value.str
        /\ Inlined(Get(defs, RefKey(ref_value.str)), out, defs,
                   Append(trail, ref_value.str))
    ELSE IF src.t = "obj" THEN
        LET kept == KeptPlaces(src.keys, 1) IN
        /\ out.t = "obj"
        /\ out.keys = [j \in 1..Len(kept) |-> src.keys[kept[j]]]
        /\ Len(out.items) = Len(kept)
        /\ \A j \in 1..Len(kept) : Inlined(src.items[kept[j]], out.items[j], defs, trail)
    ELSE IF src.t = "arr" THEN
        /\ out.t = "arr"
        /\ Len(out.items) = Len(src.items)
        /\ \A i \in 1..Len(src.items) : Inlined(src.items[i], out.items[i], defs, trail)
    ELSE out = src

\* C8: for a schema that contains $defs and $ref, at the top level or nested,
\* the schema sent as responseJsonSchema has no $ref key and no $defs key
\* anywhere, and each place that held a $ref holds the resolved content of the
\* definition it named.
C8_ResolvedSchemaHasNoReferences ==
    (/\ resolved # None
     /\ resolved[1].ok
     /\ ContainsKey(schema, "$defs")
     /\ ContainsKey(schema, "$ref"))
        => /\ ~ContainsKey(resolved[1].value, "$ref")
           /\ ~ContainsKey(resolved[1].value, "$defs")
           /\ Inlined(schema, resolved[1].value, Definitions(schema), <<>>)

\* The definitions a definition refers to, and those it reaches through them.
RefersTo(defs, name) ==
    {RefKey(r.str) : r \in {x \in RefValues(Get(defs, name)) :
                               /\ x.t = "str"
                               /\ StartsWithDefs(x.str)
                               /\ HasKey(defs, RefKey(x.str))}}

RECURSIVE Reaches(_, _, _)
Reaches(defs, names, steps) ==
    IF steps = 0 THEN names
    ELSE Reaches(defs, names \cup UNION {RefersTo(defs, n) : n \in names}, steps - 1)

HasReferenceCycle(sch) ==
    LET defs == Definitions(sch) IN
    \E i \in 1..Len(defs.keys) :
        defs.keys[i] \in Reaches(defs, RefersTo(defs, defs.keys[i]), Len(defs.keys))

HasNonStringRef(sch) == \E r \in RefValues(sch) : r.t # "str"

HasUnmatchedRef(sch) ==
    \E r \in RefValues(sch) :
        /\ r.t = "str"
        /\ StartsWithDefs(r.str)
        /\ ~HasKey(Definitions(sch), RefKey(r.str))

\* C9: schema resolution raises a client error, and returns no schema,
\* whenever the input contains a $ref whose target is not a string, a $ref to
\* #/$defs/<name> with no matching definition, or a cycle of references.
C9_BadReferencesRaise ==
    (/\ resolved # None
     /\ \/ HasNonStringRef(schema)
        \/ HasUnmatchedRef(schema)
        \/ HasReferenceCycle(schema))
        => ~resolved[1].ok


------------------------------------------------------------------------------
(* generate_json: which content part supplies the payload                   *)

Handled == http_response # None /\ json_result # None

\* The response passed every check that precedes the scan of the parts.
Successful ==
    /\ Handled
    /\ http_response[1].status = 200
    /\ \/ http_response[1].promptFeedback = None
       \/ http_response[1].promptFeedback[1].blockReason = None
    /\ http_response[1].candidates # <<>>
    /\ \/ http_response[1].candidates[1].finishReason = None
       \/ http_response[1].candidates[1].finishReason[1] \in {"STOP", "FINISH"}

CandidateParts == http_response[1].candidates[1].parts

FirstOf(S) == CHOOSE i \in S : \A j \in S : i <= j

WithJson == {i \in DOMAIN CandidateParts : CandidateParts[i].json # None}
WithText == {i \in DOMAIN CandidateParts : CandidateParts[i].text # None}

Usable ==
    {i \in DOMAIN CandidateParts :
        \/ CandidateParts[i].json # None /\ CandidateParts[i].json[1].kind = "dict"
        \/ CandidateParts[i].text # None /\ CandidateParts[i].text[1].is_str}

\* What parsing the text of part i must give: the decoded object, or an error.
FromText(i) ==
    LET parsed == JsonLoads(CandidateParts[i].text[1].tokens) IN
    IF parsed.decoded /\ parsed.value.kind = "dict"
    THEN json_result[1] = Payload(parsed.value)
    ELSE ~json_result[1].ok

\* C10 as stated: for a successful response, whenever any part of the first
\* candidate has a json field the first such part's json value is returned
\* verbatim; only when no part has a json field is the first part with a text
\* field parsed, and its text must decode to a JSON object.
C10_JsonPartAlwaysPreferred ==
    Successful =>
        IF WithJson # {}
        THEN json_result[1] = Payload(CandidateParts[FirstOf(WithJson)].json[1])
        ELSE WithText # {} /\ CandidateParts[FirstOf(WithText)].text[1].is_str
                => FromText(FirstOf(WithText))

\* C10, amended: for a successful response the parts of the first candidate
\* are scanned once, in order, and the first part that has a json field
\* holding an object or a text field holding a string decides the outcome: an
\* object-valued json field is returned verbatim (and wins over a text field
\* of the same part), otherwise the text is parsed and must decode to a JSON
\* object, scalars, arrays and undecodable text being rejected with a client
\* error; a json field in a later part is not consulted, a json field that is
\* not an object is skipped, and with no such part the call raises.
C10_FirstUsablePartDecides ==
    Successful =>
        IF Usable = {}
        THEN ~json_result[1].ok
        ELSE LET part == CandidateParts[FirstOf(Usable)] IN
             IF part.json # None /\ part.json[1].kind = "dict"
             THEN json_result[1] = Payload(part.json[1])
             ELSE FromText(FirstOf(Usable))

\* A text part that decodes to an object precedes a part with an object-valued
\* json field, and the parsed text was returned.
C10_Witness ==
    /\ Successful
    /\ Len(CandidateParts) = 2
    /\ CandidateParts[1].json = None
    /\ CandidateParts[1].text # None
    /\ CandidateParts[1].text[1].is_str
    /\ JsonLoads(CandidateParts[1].text[1].tokens).value.kind = "dict"
    /\ CandidateParts[2].json # None
    /\ CandidateParts[2].json[1].kind = "dict"
    /\ json_result[1] = Payload(JsonLoads(CandidateParts[1].text[1].tokens).value)


------------------------------------------------------------------------------
(* Properties of NativePDFContextStrategy.build_context                     *)

Processed == IF documents = None THEN {} ELSE 1..Len(documents)

PartsOf(source) == {k \in DOMAIN extras : extras[k].source = source}
UploadsOf(source) == {k \in DOMAIN uploads : uploads[k].source = source}

\* C11: each file is routed by its size alone.  A file at or below the inline
\* threshold gives exactly one inline-data part and no upload call; a file
\* above it gives exactly one upload call and, when the call succeeded,
\* exactly one file part; the extra parts follow the order of the files.
C11_RoutedBySizeAlone ==
    /\ \A i \in Processed :
        IF files[i].size <= MAX_INLINE_BYTES
        THEN /\ Cardinality(PartsOf(i)) = 1
             /\ \A k \in PartsOf(i) : extras[k].kind = "inline_data"
             /\ UploadsOf(i) = {}
        ELSE /\ Cardinality(UploadsOf(i)) = 1
             /\ \A u \in UploadsOf(i) :
                    uploads[u].ok =>
                        /\ Cardinality(PartsOf(i)) = 1
                        /\ \A k \in PartsOf(i) : extras[k].kind = "file"
    /\ extras # None =>
        \A j, k \in DOMAIN extras : j < k => extras[j].source < extras[k].source

\* A file of exactly the threshold was embedded and a larger one uploaded.
C11_Witness ==
    /\ pdf_pc = "returned"
    /\ Len(files) = 2
    /\ files[1].size = MAX_INLINE_BYTES
    /\ files[2].size > MAX_INLINE_BYTES
    /\ Len(pdf_context[1].extra_parts) = 2
    /\ pdf_context[1].extra_parts[1].kind = "inline_data"
    /\ pdf_context[1].extra_parts[2].kind = "file"
    /\ Len(uploads) = 1

FailedUploads == {i \in Processed : \E u \in UploadsOf(i) : ~uploads[u].ok}

------------------------------------------------------------------------------
(* Properties of the typed card data                                        *)

\* C15: round trip.  For every valid instance of every typed class, parsing
\* what the repository stored for it, under the card type of its class, gives
\* back an equal instance.
C15_RoundTrip ==
    card_parsed # None => card_parsed[1] = Built(card_instance[1].instance)

IsMultipleChoice(data) == data.model \in {"McqSingleCardData", "McqMultiCardData"}

\* What the classes promise of a multiple-choice value.
McqWellFormed(data) ==
    /\ \A i \in DOMAIN data.correct_option_ids :
            data.correct_option_ids[i] \in Range(data.options)
    /\ data.model = "McqSingleCardData" => Len(data.correct_option_ids) = 1
    /\ data.model = "McqMultiCardData" => Len(data.correct_option_ids) >= 2

\* C16: a multiple-choice value exists only when every correct id is one of
\* its options and the number of correct ids is exactly one (single) or at
\* least two (multi); construction with any other combination fails.
C16_McqInvariant ==
    card_instance # None /\ IsMultipleChoice(card_input[1]) =>
        /\ card_instance[1].ok <=> McqWellFormed(card_input[1])
        /\ card_instance[1].ok => McqWellFormed(card_instance[1].instance)

\* A single-choice construction naming an id that is not an option failed.
C16_Witness ==
    /\ card_instance # None
    /\ card_input[1].model = "McqSingleCardData"
    /\ card_input[1].options = <<"A", "B">>
    /\ card_input[1].correct_option_ids = <<"Z">>
    /\ ~card_instance[1].ok


------------------------------------------------------------------------------
(* Properties of AiStudyCardService._persist_generated_cards                *)

Handed == persisted # None /\ ~persisted[1].raised

RetentionNoteDue ==
    /\ agent_result[1].retention_aid # None
    /\ persist_request[1].include_retention_aid
    /\ \/ persist_request[1].preferred_card_types = <<>>
       \/ \E i \in DOMAIN persist_request[1].preferred_card_types :
            persist_request[1].preferred_card_types[i] = "note"

\* C13: the batch handed to the card storage has one entry per generated
\* card, in order, followed by exactly one more NOTE card if and only if the
\* agent produced a retention aid, the request asked for it and the request
\* names no preferred card types or names NOTE among them.
C13_RetentionNoteAppended ==
    Handed =>
        LET batch == persisted[1].cards
            cards == agent_result[1].cards IN
        /\ Len(batch) = Len(cards) + (IF RetentionNoteDue THEN 1 ELSE 0)
        /\ \A i \in DOMAIN cards : batch[i].card_type = cards[i].card_type
        /\ RetentionNoteDue =>
            /\ batch[Len(batch)].card_type = "note"
            /\ batch[Len(batch)].data.model = "NoteCardData"

\* A retention aid was produced and asked for and NOTE is among the preferred
\* types: the note follows the generated cards.
C13_Witness ==
    /\ Handed
    /\ agent_result[1].retention_aid = Some(<<"#", " ", "R", "\n", "m">>)
    /\ persist_request[1].include_retention_aid
    /\ persist_request[1].preferred_card_types = <<"mcq_single", "note">>
    /\ Len(agent_result[1].cards) = 2
    /\ Len(persisted[1].cards) = 3
    /\ persisted[1].cards[3].data.title = <<"R">>

IsBlank(str) == \A i \in DOMAIN str : str[i] \in {" ", "\t", "\n"}

HasBlankNote ==
    \E i \in DOMAIN agent_result[1].cards :
        /\ agent_result[1].cards[i].card_type = "note"
        /\ IsBlank(agent_result[1].cards[i].primary)

\* C14: a generated NOTE card without markdown (empty or whitespace only),
\* and a retention aid that is due to be persisted without markdown, make the
\* call raise: nothing is handed to the card storage, the blank note is
\* neither dropped nor turned into a generic card.
C14_BlankNoteRaises ==
    (/\ persisted # None
     /\ \/ HasBlankNote
        \/ RetentionNoteDue /\ IsBlank(agent_result[1].retention_aid[1]))
        => (persisted[1].raised /\ persisted[1].cards = <<>>)

\* The second card is a whitespace-only note after a card that maps well.
C14_Witness ==
    /\ persisted # None
    /\ Len(agent_result[1].cards) = 2
    /\ agent_result[1].cards[1].card_type = "mcq_single"
    /\ agent_result[1].cards[2].card_type = "note"
    /\ agent_result[1].cards[2].primary = <<" ", "\t">>
    /\ persisted[1].raised

\* The processor caught an exception in its try block and has finished.
FailedInProcessing == job_pc = "done" /\ job_exc # None

Exchanged == {p \in Sessions : auth_outcome[p] = Some("tokens")}

\* C18: a refresh token is exchanged at most once: among the refresh calls
\* presenting one token, overlapping or not, at most one returns a token pair
\* and no other call issues a new pair.
C18_ExchangedAtMostOnce ==
    /\ Cardinality(Exchanged) <= 1
    /\ Cardinality(issued) <= 1

\* C19: on success the result holds exactly target_card_count cards, the first
\* target_card_count cards the client returned across the attempts, in that
\* order: every batch was accepted whole, and the excess is cut from the end.
C19_FirstTargetCardsReturned ==
    pc = "returned" =>
        /\ generated_cards = AllCards(responses)
        /\ Len(outcome[1].cards) = target_card_count
        /\ outcome[1].cards = SubSeq(AllCards(responses), 1, target_card_count)

\* A batch larger than what remained was accepted whole and its last card cut.
C19_Witness ==
    /\ pc = "returned"
    /\ target_card_count = 3
    /\ Len(responses) = 2
    /\ responses[1].kind = "valid" /\ Len(responses[1].cards) = 2
    /\ responses[2].kind = "valid" /\ Len(responses[2].cards) = 2
    /\ Len(generated_cards) = 4
    /\ outcome[1].cards = SubSeq(generated_cards, 1, 3)
    /\ outcome[1].cards # SubSeq(generated_cards, 2, 4)

\* C20: every card of a valid response is accepted: the accepted list grows by
\* exactly the cards of the response, in their order, whatever their card
\* types, whatever request.preferred_card_types holds and whether or not a
\* question repeats an earlier or an existing one.
C20_EveryCardAccepted ==
    [][(/\ pc = "awaiting"
        /\ Len(responses') = Len(responses) + 1
        /\ responses'[Len(responses')].kind = "valid")
       => /\ generated_cards' = generated_cards \o responses'[Len(responses')].cards
          /\ Len(generated_cards') =
                 Len(generated_cards) + Len(responses'[Len(responses')].cards)]_vars

\* Under a preference for question cards, a note and a card that repeats the
\* question of an earlier card were accepted, past the target.
C20_Witness ==
    /\ request # None
    /\ request.preferred_card_types = <<"mcq_single">>
    /\ target_card_count = 2
    /\ Len(generated_cards) = 3
    /\ generated_cards[1].card_type = "mcq_single"
    /\ generated_cards[2].card_type = "note"
    /\ generated_cards[3].card_type = "mcq_single"
    /\ Strip(generated_cards[3].question) = Strip(generated_cards[1].question)

\* The retention aids of the non-empty valid responses, in order of arrival.
RECURSIVE AidsSeen(_)
AidsSeen(rs) ==
    IF rs = <<>> THEN <<>>
    ELSE (IF rs[1].kind = "valid" /\ rs[1].cards # <<>> /\ rs[1].retention_aid # None
          THEN <<rs[1].retention_aid>> ELSE <<>>) \o AidsSeen(Tail(rs))

\* C21: when include_retention_aid is true the AgentResult carries the first
\* retention aid seen in a non-empty valid batch of the run; when it is false
\* the AgentResult carries none.
C21_FirstRetentionAidKept ==
    pc = "returned" =>
        IF request.include_retention_aid /\ AidsSeen(responses) # <<>>
        THEN outcome[1].retention_aid = AidsSeen(responses)[1]
        ELSE outcome[1].retention_aid = None

\* The lines of the "existing cards" block of the k-th call.
BlockOf(k) ==
    IF calls[k].existing_cards = None THEN <<>> ELSE calls[k].existing_cards[1]

\* The cards accepted in the attempts before the k-th call.
AcceptedCardsBefore(k) == AllCards(SubSeq(responses, 1, k - 1))

HasLine(block, origin, card_type, difficulty, question) ==
    \E i \in DOMAIN block :
        block[i] = [origin |-> origin, card_type |-> card_type,
                    difficulty |-> difficulty, question |-> question]

\* C22: the dedup context only grows: the block of every call holds a line for
\* every non-blank existing question and a summary line (type, difficulty,
\* stripped question) for every question card with a non-blank question
\* accepted before the call; a note adds no line and the block of a call
\* starts with the whole block of the call before it.
C22_DedupContextGrows ==
    \A k \in DOMAIN calls :
        LET block == BlockOf(k)
            accepted == AcceptedCardsBefore(k)
        IN
        /\ \A i \in DOMAIN ExistingQuestions :
             Strip(ExistingQuestions[i]) # <<>> =>
                 HasLine(block, "Existing question", "", 0, Strip(ExistingQuestions[i]))
        /\ \A i \in DOMAIN accepted :
             (accepted[i].card_type # "note" /\ Strip(accepted[i].question) # <<>>) =>
                 HasLine(block, "card", accepted[i].card_type, accepted[i].difficulty,
                         Strip(accepted[i].question))
        /\ \A i \in DOMAIN block : block[i].card_type # "note"
        /\ k > 1 =>
             /\ Len(BlockOf(k - 1)) <= Len(block)
             /\ SubSeq(block, 1, Len(BlockOf(k - 1))) = BlockOf(k - 1)

\* A third call whose block holds the line of the first attempt's question
\* card, after a note and a question card with a blank question were accepted.
C22_Witness ==
    /\ Len(calls) = 3
    /\ Len(AcceptedCardsBefore(3)) = 2
    /\ AcceptedCardsBefore(3)[1].card_type = "mcq_single"
    /\ AcceptedCardsBefore(3)[2].card_type = "mcq_single"
    /\ Strip(AcceptedCardsBefore(3)[2].question) = <<>>
    /\ Len(BlockOf(1)) = 1
    /\ Len(BlockOf(3)) = 2
    /\ BlockOf(3)[2].origin = "card"

\* Every generated card, and the retention note when due, is mapped.
AllMapped ==
    /\ gen_result # None
    /\ Len(card_payloads) = Len(gen_result[1].cards)
                            + (IF IncludeRetentionNote(gen_result[1], gen_request[1])
                               THEN 1 ELSE 0)
    /\ \A i \in DOMAIN gen_result[1].cards :
         card_payloads[i].card_type = gen_result[1].cards[i].card_type

\* C23: within one generate_from_pdfs call import_card_batch is invoked at
\* most once, only after the agent returned and every card and the due
\* retention note were mapped, and with all of them; when the context, the
\* agent or a mapping fails it is not invoked and nothing is stored.
C23_PersistOnceAfterMapping ==
    /\ Len(import_calls) <= 1
    /\ import_calls # <<>> =>
         /\ gen_pc = "returned"
         /\ AllMapped
         /\ import_calls[1] = card_payloads
         /\ stored = card_payloads
    /\ import_calls = <<>> => stored = <<>>
    /\ gen_raised # None => import_calls = <<>> /\ stored = <<>>
    /\ Len(stored) \in {0, Len(card_payloads)}

\* Two cards and the retention note were mapped and stored by the one call.
C23_Witness ==
    /\ gen_pc = "returned"
    /\ Len(gen_result[1].cards) = 2
    /\ Len(import_calls) = 1
    /\ Len(import_calls[1]) = 3
    /\ Len(stored) = 3

\* C24: a referenced stored card of a question type, persisted from its typed
\* CardData, contributes its prompt to the existing questions; a stored card
\* that is not of a question type contributes nothing; without referenced
\* ids the repository is not queried.
C24_QuestionCardsContribute ==
    existing_questions # None =>
        LET data == card_instance[1].instance IN
        IF existing_card_ids[1] = <<>>
        THEN existing_questions[1] = <<>> /\ get_many_calls = 0
        ELSE IF data.model \in QuestionClasses
        THEN Strip(data.prompt) # <<>> =>
                 Strip(data.prompt) \in Range(existing_questions[1])
        ELSE existing_questions[1] = <<>>

Is2xx(response) == response.status \in 200..299

\* C25: upload_file posts the bytes only after a 2xx start response carrying
\* an upload URL, returns a URI only after a 2xx upload response whose file
\* descriptor holds a URI, and ends with a client error and no URI on a
\* non-2xx status, a missing upload URL or a missing URI.
C25_TwoPhaseUpload ==
    /\ Len(up_requests) <= 2
    /\ up_requests # <<>> => up_requests[1].command = "start"
    /\ Len(up_requests) = 2 =>
         /\ up_requests[2].command = "upload, finalize"
         /\ Len(up_responses) >= 1
         /\ Is2xx(up_responses[1])
         /\ up_responses[1].upload_url = Some(up_requests[2].url)
         /\ up_requests[2].url # ""
    /\ (up_result # None /\ up_result[1].ok) =>
         /\ Len(up_requests) = 2 /\ Len(up_responses) = 2
         /\ Is2xx(up_responses[2])
         /\ up_responses[2].file # None
         /\ up_responses[2].file[1].has_uri
         /\ up_result[1].file_uri = up_responses[2].file[1].uri
    /\ \A i \in DOMAIN up_responses :
         (\/ ~Is2xx(up_responses[i])
          \/ (i = 1 /\ up_responses[i].upload_url \in {None, Some("")})
          \/ (i = 2 /\ up_responses[i].file = None)
          \/ (i = 2 /\ up_responses[i].file # None /\ ~up_responses[i].file[1].has_uri))
         => /\ up_pc = "done"
            /\ ~up_result[1].ok
            /\ up_result[1].file_uri = ""
            /\ Len(up_requests) = i

\* A start response with status 302 carried an upload URL: no bytes were sent.
C25_Witness ==
    /\ up_pc = "done"
    /\ Len(up_responses) = 1
    /\ up_responses[1].status = 302
    /\ up_responses[1].upload_url = Some("https://upload/1")
    /\ Len(up_requests) = 1
    /\ ~up_result[1].ok

\* The typed class _map_card_to_data builds for a card type.
TypedClassOf(card_type) ==
    CASE card_type = "mcq_single" -> "McqSingleCardData"
      [] card_type = "mcq_multi" -> "McqMultiCardData"
      [] card_type = "written" -> "WrittenCardData"
      [] card_type = "true_false" -> "TrueFalseCardData"
      [] card_type = "cloze" -> "ClozeCardData"
      [] card_type = "emq" -> "EmqCardData"
      [] OTHER -> "GenericCardData"

\* C26: mapping a card that is not a NOTE never raises: the result is the
\* typed variant of its card type or a GenericCardData carrying the original
\* payload, the latter whenever the typed variant is structurally invalid
\* (a multiple-choice card whose correct ids are not among its options).
C26_NonNoteMappingNeverRaises ==
    (map_result # None /\ map_card[1].card_type # "note") =>
        LET card == map_card[1]
            data == map_result[1].data IN
        /\ ~map_result[1].raised
        /\ \/ data.model = TypedClassOf(card.card_type) /\ Construct(data).ok
           \/ data.model = "GenericCardData" /\ data.payload = Some(card)
        /\ (/\ card.card_type \in {"mcq_single", "mcq_multi"}
            /\ \E i \in DOMAIN card.correct_answers :
                   card.correct_answers[i] \notin Range(card.options))
           => data.model = "GenericCardData"

\* A single-answer card whose correct id is not an option became generic.
C26_Witness ==
    /\ map_result # None
    /\ map_card[1].card_type = "mcq_single"
    /\ map_card[1].options = <<"A", "B">>
    /\ map_card[1].correct_answers = <<"Z">>
    /\ ~map_result[1].raised
    /\ map_result[1].data.model = "GenericCardData"
    /\ map_result[1].data.payload = map_card

NoteLiteral == <<"N", "o", "t", "e">>

\* A note with markdown was mapped.
NoteMapped ==
    /\ map_result # None
    /\ map_card[1].card_type = "note"
    /\ Strip(map_card[1].primary) # <<>>

\* The explicit title of the glossary, stripped, <<>> when absent or blank.
GlossaryTitle(card) ==
    IF card.glossary_title = None THEN <<>> ELSE Strip(card.glossary_title[1])

\* The stripped lines of the stripped markdown that are not blank.
NonBlankLines(card) ==
    LET lines == SplitLines(Strip(card.primary), <<>>) IN
    SelectSeq([i \in DOMAIN lines |-> Strip(lines[i])], LAMBDA line : line # <<>>)

IsHeading(line) == line # <<>> /\ line[1] = "#"

HeadingText(line) == Strip(LStripHashes(line))

Truncated(line) == SubSeq(line, 1, Min(Len(line), LineLimit))

\* The title by the stated precedence: the heading is the first line that
\* starts with "#", wherever it stands.
StatedTitle(card) ==
    LET lines == NonBlankLines(card)
        headings == SelectSeq(lines, IsHeading) IN
    IF GlossaryTitle(card) # <<>> THEN GlossaryTitle(card)
    ELSE IF headings # <<>> /\ HeadingText(headings[1]) # <<>> THEN HeadingText(headings[1])
    ELSE IF lines # <<>> THEN Truncated(lines[1])
    ELSE NoteLiteral

\* C27 as stated: the title of a note with markdown is the glossary title if
\* not blank, else the first heading line if not blank, else the first
\* non-blank line truncated to 80 characters, else "Note".
C27_StatedTitlePrecedence ==
    NoteMapped =>
        /\ ~map_result[1].raised
        /\ map_result[1].data.title = StatedTitle(map_card[1])

\* C27, amended: the title is the glossary title if not blank; else the first
\* non-blank line of the markdown decides alone: when it starts with "#" the
\* title is its text after the "#"s, or "Note" when that text is blank;
\* otherwise the title is the line truncated to 80 characters.
C27_TitleFromFirstLine ==
    NoteMapped =>
        LET card == map_card[1]
            first == NonBlankLines(card)[1] IN
        /\ ~map_result[1].raised
        /\ map_result[1].data.model = "NoteCardData"
        /\ map_result[1].data.title =
              IF GlossaryTitle(card) # <<>> THEN GlossaryTitle(card)
              ELSE IF IsHeading(first)
              THEN (IF HeadingText(first) # <<>> THEN HeadingText(first) ELSE NoteLiteral)
              ELSE Strip(Truncated(first))

\* A note whose first line is a heading without text got the title "Note",
\* though a later line has text.
C27_Witness ==
    /\ NoteMapped
    /\ map_card[1].glossary_title = None
    /\ map_card[1].primary = <<"#", " ", "\n", "m">>
    /\ map_result[1].data.title = NoteLiteral

IngestDone == ing_result # None

\* Whether short is long with its end cut off.
IsPrefix(short, long) ==
    Len(short) <= Len(long) /\ short = SubSeq(long, 1, Len(short))

\* C28: every returned text segment is non-empty and no longer than the chunk
\* size; their lengths sum to min(max_text_length, total length of the
\* untruncated segments); and they are a prefix of the untruncated segments
\* in which only the last retained one may be shortened.
C28_SegmentsBounded ==
    IngestDone =>
        LET returned == ing_result[1]
            untruncated == text_segments[1]
            n == Len(returned) IN
        /\ \A i \in 1..n :
              /\ returned[i].content # <<>>
              /\ Len(returned[i].content) <= ing_config[1].text_chunk_size
        /\ TotalLength(returned) = Min(ing_config[1].max_text_length, TotalLength(untruncated))
        /\ n <= Len(untruncated)
        /\ \A i \in 1..n :
              /\ returned[i].page_index = untruncated[i].page_index
              /\ IsPrefix(returned[i].content, untruncated[i].content)
              /\ (i < n => returned[i] = untruncated[i])

\* A document of two pages lost a segment and had the last retained segment
\* shortened.
C28_Witness ==
    /\ IngestDone
    /\ Len(ing_pages[1]) = 2
    /\ Len(ing_result[1]) > 1
    /\ Len(ing_result[1]) < Len(text_segments[1])
    /\ ing_result[1][Len(ing_result[1])] # text_segments[1][Len(ing_result[1])]

Terminal(row) == row # None /\ row[1].status \in {"completed", "failed"}

\* The moves of the committed status that go forward.
ForwardMoves ==
    {<<"pending", "in_progress">>, <<"in_progress", "completed">>,
     <<"in_progress", "failed">>, <<"pending", "failed">>}

\* C29: the committed status of a job only moves forward (pending to
\* in_progress to completed or failed, or pending to failed), a completed or
\* failed job never changes status again whatever is delivered, and a
\* completed job has a result and no error.
C29_StatusOnlyForward ==
    [][/\ (job_row # None /\ job_row' # None /\ job_row'[1].status # job_row[1].status)
            => <<job_row[1].status, job_row'[1].status>> \in ForwardMoves
       /\ Terminal(job_row) => (job_row' # None /\ job_row'[1].status = job_row[1].status)
       /\ (job_row' # None /\ job_row'[1].status = "completed")
            => (job_row'[1].result /\ job_row'[1].error = None)]_vars

Disabled == is_active = Some(FALSE)

\* C30: no call issues a token pair for a disabled user: once is_active is
\* false, authenticate and refresh are rejected and no refresh token is
\* created.
C30_NoTokensForDisabledUser ==
    [][Disabled =>
          /\ Len(refresh_tokens') = Len(refresh_tokens)
          /\ (login_outcome' # login_outcome => login_outcome' \in {Some("401"), Some("403")})]_vars

====
